---- MODULE Spec2Model ----
(***************************************************************************)
(* xbtracer capture library: the symbol resolver (router), the dispatch    *)
(* table (xrt_ftbl), the instrumented shims and the trace logger.          *)
(*                                                                         *)
(* Strings that the code compares or rewrites (demangled names, canonical  *)
(* signatures) are sequences of tokens; a token is a piece of text that    *)
(* the replacement lists of the code treat as a unit.                      *)
(***************************************************************************)
EXTENDS Integers, Sequences, FiniteSets, TLC

(* ------------------------------ bounds -------------------------------- *)
\* entries of the dynamic symbol table of the parsed image (num_symbols)
MaxSyms == 2
\* intercepted calls the client thread makes
MaxCalls == 2
\* wrapper objects sharing one device handle (use_count)
MaxCopies == 2
\* null slots of a dispatch table handed to the shim layer
MaxNullSlots == 1
MaxEvents == 2
MaxEnvCalls == 3
MaxStrLen == 3
MaxPairs == 2
MaxTokens == 9

NULL == 0

(* ------------------------- text as token sequences -------------------- *)
BasicString ==
  "std::__cxx11::basic_string<char, std::char_traits<char>, std::allocator<char> >"

\* std::string::find(pat, pos): the first position >= pos where pat occurs,
\* 0 for npos (positions are 1-based here).
RECURSIVE Find(_, _, _)
Find(str, pat, pos) ==
  IF pos + Len(pat) - 1 > Len(str) THEN 0
  ELSE IF SubSeq(str, pos, pos + Len(pat) - 1) = pat THEN pos
  ELSE Find(str, pat, pos + 1)

\* the while loop of find_and_replace_all for one pair, resumed at pos
RECURSIVE ReplaceFrom(_, _, _, _)
ReplaceFrom(str, first, second, pos) ==
  LET p == Find(str, first, pos) IN
  IF p = 0 THEN str
  ELSE ReplaceFrom(SubSeq(str, 1, p - 1) \o second
                     \o SubSeq(str, p + Len(first), Len(str)),
                   first, second, p + Len(second))

RECURSIVE find_and_replace_all(_, _)
find_and_replace_all(str, replacements) ==
  IF replacements = << >> THEN str
  ELSE find_and_replace_all(
         ReplaceFrom(str, Head(replacements)[1], Head(replacements)[2], 1),
         Tail(replacements))

(* ------------------------- the real library's symbols ----------------- *)
CtorC1 == "_ZN3xrt6deviceC1Ej"
CtorC2 == "_ZN3xrt6deviceC2Ej"
LoadFnm ==
  "_ZN3xrt6device11load_xclbinERKNSt7__cxx1112basic_stringIcSt11char_traitsIcESaIcEEE"
GetUuid == "_ZNK3xrt6device15get_xclbin_uuidEv"
CFunc == "xclOpen"

Mangled == {CtorC1, CtorC2, LoadFnm, GetUuid, CFunc}

\* abi::__cxa_demangle: the demangled text, or << >> when status != 0
CxaDemangle(m) ==
  CASE m = CtorC1 -> << "xrt::device::device(unsigned int)" >>
    [] m = CtorC2 -> << "xrt::device::device(unsigned int)" >>
    [] m = LoadFnm -> << "xrt::device::load_xclbin(", BasicString, " const&)" >>
    [] m = GetUuid -> << "xrt::device::get_xclbin_uuid() const" >>
    [] OTHER -> << >>

\* the address dlsym gives for an exported symbol (distinct per symbol)
AddrOf(m) ==
  CASE m = CtorC1 -> 1
    [] m = CtorC2 -> 2
    [] m = LoadFnm -> 3
    [] m = GetUuid -> 4
    [] OTHER -> 5

DemangleReplacements ==
  << << << BasicString >>, << "std::string" >> >>,
     << << "[abi:cxx11]" >>, << >> >>,
     << << "std::map<", "std::string", ", unsigned int, std::less<",
           "std::string", " >, std::allocator<std::pair<", "std::string",
           " const, unsigned int> > >", " const&" >>,
        << "xrt::hw_context::cfg_param_type", " const&" >> >> >>

demangleEmptyOnFailure(mangled_name) ==
  IF CxaDemangle(mangled_name) # << >>
  THEN find_and_replace_all(CxaDemangle(mangled_name), DemangleReplacements)
  ELSE << >>

demangle(mangled_name) ==
  IF CxaDemangle(mangled_name) # << >>
  THEN find_and_replace_all(CxaDemangle(mangled_name), DemangleReplacements)
  ELSE << mangled_name >>

(* ------------------------------ dispatch table ------------------------ *)
Slots ==
  { "dtbl.device.ctor", "dtbl.device.load_xclbin_fnm",
    "dtbl.device.load_xclbin_obj", "dtbl.device.get_xclbin_uuid",
    "dtbl.device.dtor",
    "dtbl.xclbin.ctor_fnm", "dtbl.xclbin.ctor_raw", "dtbl.xclbin.ctor_axlf",
    "dtbl.hw_context.ctor_frm_cfg", "dtbl.hw_context.ctor_frm_mode",
    "dtbl.hw_context.update_qos" }

SigDeviceCtor == << "xrt::device::device(unsigned int)" >>
SigLoadXclbin == << "xrt::device::load_xclbin(", "std::string", " const&)" >>

\* the fixed association: canonical signature -> slot
fname2fptr_keys == { SigDeviceCtor, SigLoadXclbin }

fname2fptr_map(sig) ==
  IF sig = SigDeviceCtor THEN "dtbl.device.ctor"
  ELSE "dtbl.device.load_xclbin_fnm"

(* ------------------------------- state -------------------------------- *)
VARIABLES
  rpc,            \* where the construction of the router singleton stands
  nsyms,          \* num_symbols of the image's SHT_DYNSYM section
  symtab,         \* the symbol table entries read so far, in table order
  func_mangled,   \* router::func_mangled: canonical signature -> mangled name
  pending,        \* keys of func_mangled the loop of load_func_addr has yet to visit
  dtbl,           \* xrt_ftbl: slot -> address (NULL when unresolved)
  writes,         \* how often each slot has been assigned
  fptr2fname_map, \* address -> canonical signature
  dlsyms,         \* the dlsym lookups made: symbol name and whether it was found
  cerr,           \* lines written to std::cerr
  cout,           \* lines written to std::cout
  win32,          \* the build: TRUE when _WIN32 is defined
  proc,           \* "running", or "crashed" once the process was killed
  lg,             \* the logger singleton: "unbuilt", "open", "nofile"
  trace,          \* records written to trace.txt
  handle,         \* per wrapper class, the pimpl handle (NULL when none)
  use,            \* use_count of the device handle
  keys,           \* handles the real constructors have created so far
  cur,            \* the intercepted call in progress
  calls,          \* the intercepted calls that have ended, in call order
  realCalls,      \* invocations made through the dispatch table, in order
  linit,          \* guard of the static in logger::get_instance(): "none",
                  \* "constructing" (by the thread at "ctor") or "done"
  th,             \* per thread, the trace macro it is executing
  blob,           \* bytes of memdump.bin
  pre,            \* what trace.txt and memdump.bin held when the process began
  nev,            \* trace macros entered so far
  refs,           \* the calls of mb_stringify that returned: thread, buffer, text
  env_mutex,      \* std::mutex env_mutex: the thread that holds it, or NULL
  arg,            \* the arguments of the function under study
  res             \* where that function stands, and its results

rvars == << rpc, nsyms, symtab, func_mangled, pending, dtbl, writes,
            fptr2fname_map, dlsyms >>
ovars == << cerr, cout >>
cvars == << win32, proc, lg, trace, handle, use, keys, cur, calls, realCalls >>
lvars == << linit, th, blob, pre, nev, refs >>
pvars == << env_mutex, arg, res >>
vars == << rvars, ovars, cvars, lvars, pvars >>

EmptyMap == [x \in {} |-> NULL]

MapPut(f, k, v) == [x \in (DOMAIN f) \cup {k} |-> IF x = k THEN v ELSE f[x]]

(* ------------------------------ the router ---------------------------- *)
ImageFaults ==
  { "ok", "no_preload", "no_open", "bad_magic", "bad_shdr", "no_dynsym" }

SymEntries ==
  { [name |-> m, kind |-> "func"] : m \in Mangled } \cup
  { [name |-> "", kind |-> k] :
      k \in { "filtered", "unreadable_entry", "unreadable_name" } }

\* what load_symbols reports on a fatal fault, then what router() reports
ImageFaultCerr(fault) ==
  CASE fault = "no_preload" -> << "Failed to open ELF file: " >>
    [] fault = "no_open" -> << "Failed to open ELF file: " >>
    [] fault = "bad_magic" -> << "Not an ELF file" >>
    [] fault = "bad_shdr" -> << "Failed to read section header table" >>
    [] fault = "no_dynsym" -> << "Symbol table section not found" >>
    [] OTHER -> << >>

find_library_path(fault) ==
  IF fault = "no_preload" THEN << "LD_PRELOAD is not set." >> ELSE << >>

RouterThrowsSymbols == << "Failed to load symbols exiting application " >>

\* router::router() up to the symbol loop of load_symbols: find_library_path,
\* open, ELF magic, section header table, SHT_DYNSYM lookup
LoadSymbolsOpen ==
  /\ rpc = "static_init"
  /\ \E fault \in ImageFaults, n \in 0..MaxSyms :
       IF fault = "ok"
       THEN /\ nsyms' = n
            /\ rpc' = IF n = 0 THEN "dlopen" ELSE "symbols"
            /\ UNCHANGED ovars
       ELSE /\ nsyms' = 0
            /\ rpc' = "failed"
            /\ cerr' = cerr \o ImageFaultCerr(fault)
            /\ cout' = cout \o find_library_path(fault) \o RouterThrowsSymbols
  /\ UNCHANGED << symtab, func_mangled, pending, dtbl, writes, fptr2fname_map,
                  dlsyms >>
  /\ UNCHANGED cvars
  /\ UNCHANGED lvars
  /\ UNCHANGED pvars

\* variant: an insertion that keeps the name read first for a signature
InsertSymbolFirstWins(fm, name) ==
  IF demangle(name) \in DOMAIN fm THEN fm ELSE MapPut(fm, demangle(name), name)

\* func_mangled[demangled_name] = symbol_name.data()
InsertSymbol(fm, name) == MapPut(fm, demangle(name), name)

\* one iteration of the symbol loop of load_symbols
ReadSymbol ==
  /\ rpc = "symbols"
  /\ Len(symtab) < nsyms
  /\ \E e \in SymEntries :
       /\ symtab' = Append(symtab, e)
       /\ IF e.kind \in { "unreadable_entry", "unreadable_name" }
          THEN /\ rpc' = "failed"
               /\ cerr' = Append(cerr,
                     IF e.kind = "unreadable_entry"
                     THEN "Failed to read symbol table entry"
                     ELSE "Failed to read symbol name")
               /\ cout' = cout \o RouterThrowsSymbols
               /\ UNCHANGED func_mangled
          ELSE /\ rpc' = IF Len(symtab) + 1 = nsyms THEN "dlopen" ELSE "symbols"
               /\ func_mangled' = IF e.kind = "func"
                                  THEN InsertSymbol(func_mangled, e.name)
                                  ELSE func_mangled
               /\ UNCHANGED ovars
  /\ UNCHANGED << nsyms, pending, dtbl, writes, fptr2fname_map, dlsyms >>
  /\ UNCHANGED cvars
  /\ UNCHANGED lvars
  /\ UNCHANGED pvars

\* the keys the loop of load_func_addr visits
LoopKeys(fm) == DOMAIN fm

\* load_func_addr: dlopen of the real library
Dlopen ==
  /\ rpc = "dlopen"
  /\ \E ok \in BOOLEAN :
       IF ok
       THEN /\ pending' = LoopKeys(func_mangled)
            /\ rpc' = IF LoopKeys(func_mangled) = {} THEN "done" ELSE "addrs"
            /\ UNCHANGED ovars
       ELSE /\ rpc' = "failed"
            /\ cerr' = Append(cerr, "Error loading shared library: ")
            /\ cout' = Append(cout,
                 "Failed to load function address exiting application ")
            /\ UNCHANGED pending
  /\ UNCHANGED << nsyms, symtab, func_mangled, dtbl, writes, fptr2fname_map,
                  dlsyms >>
  /\ UNCHANGED cvars
  /\ UNCHANGED lvars
  /\ UNCHANGED pvars

\* dlsym(handle, name): the symbol's address when the real library exports it
dlsym(name, exported) == IF exported THEN AddrOf(name) ELSE NULL

\* variant: a loop that does not advance past the key it has visited
VisitedKeepsKey(p, k) == p

\* what is left of the loop once key k has been visited
Visited(p, k) == p \ {k}

\* variant: a null address from dlsym makes load_func_addr return 0
AfterVisitNullFatal(p, addr) ==
  IF addr = NULL THEN "failed" ELSE IF p = {} THEN "done" ELSE "addrs"

\* where the router stands after an iteration that got addr from dlsym: a null
\* address is not an error, the loop goes on and load_func_addr returns 1
AfterVisit(p, addr) == IF p = {} THEN "done" ELSE "addrs"

\* one iteration of the loop of load_func_addr
ResolveOne ==
  /\ rpc = "addrs"
  /\ \E k \in pending, exported \in BOOLEAN :
       /\ pending' = Visited(pending, k)
       /\ IF k \in fname2fptr_keys
          THEN LET temp == fname2fptr_map(k)
                   addr == dlsym(func_mangled[k], exported)
               IN /\ dtbl' = [dtbl EXCEPT ![temp] = addr]
                  /\ writes' = [writes EXCEPT ![temp] = @ + 1]
                  /\ dlsyms' = dlsyms \cup
                        { [name |-> func_mangled[k], found |-> exported] }
                  \* "nullptr == temp" tests the slot's address, never null
                  /\ fptr2fname_map' = MapPut(fptr2fname_map, addr, k)
                  /\ rpc' = AfterVisit(Visited(pending, k), addr)
          ELSE /\ rpc' = AfterVisit(Visited(pending, k), AddrOf(func_mangled[k]))
               /\ UNCHANGED << dtbl, writes, fptr2fname_map, dlsyms >>
  /\ UNCHANGED << nsyms, symtab, func_mangled >>
  /\ UNCHANGED ovars
  /\ UNCHANGED cvars
  /\ UNCHANGED lvars
  /\ UNCHANGED pvars

(* ------------------------------ the shims ----------------------------- *)
Kinds ==
  { "xrt::device::device(unsigned int)",
    "xrt::device::load_xclbin(const std::string&)",
    "xrt::device::load_xclbin(const xrt::xclbin&)",
    "xrt::device::get_xclbin_uuid()",
    "xrt::device::~device()",
    "xrt::xclbin::xclbin(const std::string&)",
    "xrt::xclbin::xclbin(const std::vector<char>&)",
    "xrt::xclbin::xclbin(const axlf*)",
    "xrt::hw_context::hw_context(cfg_param_type)",
    "xrt::hw_context::hw_context(access_mode)",
    "xrt::hw_context::update_qos(const cfg_param_type&)" }

Classes == { "device", "xclbin", "hw_context" }

ClassOf(kind) ==
  IF kind \in { "xrt::device::device(unsigned int)",
                "xrt::device::load_xclbin(const std::string&)",
                "xrt::device::load_xclbin(const xrt::xclbin&)",
                "xrt::device::get_xclbin_uuid()",
                "xrt::device::~device()" } THEN "device"
  ELSE IF kind \in { "xrt::xclbin::xclbin(const std::string&)",
                     "xrt::xclbin::xclbin(const std::vector<char>&)",
                     "xrt::xclbin::xclbin(const axlf*)" } THEN "xclbin"
  ELSE "hw_context"

CtorKinds ==
  { "xrt::device::device(unsigned int)",
    "xrt::xclbin::xclbin(const std::string&)",
    "xrt::xclbin::xclbin(const std::vector<char>&)",
    "xrt::xclbin::xclbin(const axlf*)",
    "xrt::hw_context::hw_context(cfg_param_type)",
    "xrt::hw_context::hw_context(access_mode)" }

DtorKinds == { "xrt::device::~device()" }

MethodKinds == (Kinds \ CtorKinds) \ DtorKinds

\* a statement of a shim body; in_try: inside the shim's try block
Stmt(op, slot, in_try) == [op |-> op, slot |-> slot, in_try |-> in_try]

CallOps == { "CALL_CTOR", "CALL_METD", "CALL_METD_RET" }

\* xrt::device::device(unsigned int)
device_ctor ==
  << Stmt("CALL_CTOR", "dtbl.device.ctor", FALSE),
     Stmt("FUNC_ENTRY", "", FALSE),
     Stmt("SET_HANDLE", "", FALSE),
     Stmt("FUNC_EXIT", "", FALSE) >>

\* xrt::device::load_xclbin(const std::string&)
device_load_xclbin_fnm ==
  << Stmt("FUNC_ENTRY", "", FALSE),
     Stmt("CALL_METD_RET", "dtbl.device.load_xclbin_fnm", FALSE),
     Stmt("FILE_SIZE", "", FALSE),
     Stmt("FUNC_EXIT_RET", "", FALSE) >>

\* xrt::device::load_xclbin(const xrt::xclbin&)
device_load_xclbin_obj ==
  << Stmt("FUNC_ENTRY", "", FALSE),
     Stmt("CALL_METD_RET", "dtbl.device.load_xclbin_obj", FALSE),
     Stmt("FUNC_EXIT_RET", "", FALSE) >>

\* xrt::device::get_xclbin_uuid()
device_get_xclbin_uuid ==
  << Stmt("FUNC_ENTRY", "", FALSE),
     Stmt("CALL_METD_RET", "dtbl.device.get_xclbin_uuid", FALSE),
     Stmt("FUNC_EXIT_RET", "", FALSE) >>

\* xrt::device::~device(): the body under "if (count < 2)", by platform
device_dtor(w) ==
  IF w
  THEN << Stmt("GATE", "", FALSE),
          Stmt("FUNC_ENTRY", "", FALSE),
          Stmt("FUNC_EXIT", "", FALSE),
          Stmt("CALL_METD", "dtbl.device.dtor", FALSE) >>
  ELSE << Stmt("GATE", "", FALSE),
          Stmt("FUNC_ENTRY", "", FALSE),
          Stmt("CALL_METD", "dtbl.device.dtor", FALSE),
          Stmt("FUNC_EXIT", "", FALSE) >>

\* xrt::xclbin::xclbin(const std::string&)
xclbin_ctor_fnm ==
  << Stmt("CALL_CTOR", "dtbl.xclbin.ctor_fnm", TRUE),
     Stmt("FUNC_ENTRY", "", TRUE),
     Stmt("FUNC_EXIT", "", FALSE) >>

\* variant: a constructor shim that traces its entry before it forwards
plain_ctor_entry_first(slot) ==
  << Stmt("FUNC_ENTRY", "", FALSE),
     Stmt("CALL_CTOR", slot, FALSE),
     Stmt("FUNC_EXIT", "", FALSE) >>

\* the constructor shims of the form CALL_CTOR; FUNC_ENTRY; FUNC_EXIT
plain_ctor(slot) ==
  << Stmt("CALL_CTOR", slot, FALSE),
     Stmt("FUNC_ENTRY", "", FALSE),
     Stmt("FUNC_EXIT", "", FALSE) >>

\* variant: a method shim that forwards before it traces its entry
hw_context_update_qos_forward_first ==
  << Stmt("CALL_METD", "dtbl.hw_context.update_qos", FALSE),
     Stmt("FUNC_ENTRY", "", FALSE),
     Stmt("FUNC_EXIT", "", FALSE) >>

\* xrt::hw_context::update_qos
hw_context_update_qos ==
  << Stmt("FUNC_ENTRY", "", FALSE),
     Stmt("CALL_METD", "dtbl.hw_context.update_qos", FALSE),
     Stmt("FUNC_EXIT", "", FALSE) >>

\* the body of the shim of each intercepted entry point
Body(kind, w) ==
  CASE kind = "xrt::device::device(unsigned int)" -> device_ctor
    [] kind = "xrt::device::load_xclbin(const std::string&)" ->
         device_load_xclbin_fnm
    [] kind = "xrt::device::load_xclbin(const xrt::xclbin&)" ->
         device_load_xclbin_obj
    [] kind = "xrt::device::get_xclbin_uuid()" -> device_get_xclbin_uuid
    [] kind = "xrt::device::~device()" -> device_dtor(w)
    [] kind = "xrt::xclbin::xclbin(const std::string&)" -> xclbin_ctor_fnm
    [] kind = "xrt::xclbin::xclbin(const std::vector<char>&)" ->
         plain_ctor("dtbl.xclbin.ctor_raw")
    [] kind = "xrt::xclbin::xclbin(const axlf*)" ->
         plain_ctor("dtbl.xclbin.ctor_axlf")
    [] kind = "xrt::hw_context::hw_context(cfg_param_type)" ->
         plain_ctor("dtbl.hw_context.ctor_frm_cfg")
    [] kind = "xrt::hw_context::hw_context(access_mode)" ->
         plain_ctor("dtbl.hw_context.ctor_frm_mode")
    [] OTHER -> hw_context_update_qos

\* the slot a shim routes through
SlotOf(kind) ==
  LET b == Body(kind, FALSE)
      i == CHOOSE j \in 1..Len(b) : b[j].op \in CallOps
  IN b[i].slot

\* values a real method returns (a default-constructed uuid is 0)
RetVals == { 1, 2 }

NoCall ==
  [ kind |-> "none", pc |-> 0, r |-> 0, real |-> 0, key |-> NULL, count |-> 0,
    nullslot |-> FALSE, released |-> FALSE, rthrew |-> FALSE, e0 |-> 0,
    ev |-> << >> ]

\* client threads exist once static initialisation (dptr) has completed
ClientMayRun == rpc = "done"

Running == ClientMayRun /\ proc = "running"

InCall == cur.kind # "none"

Prog == Body(cur.kind, win32)

At(ops) ==
  /\ Running
  /\ InCall
  /\ cur.pc <= Len(Prog)
  /\ Prog[cur.pc].op \in ops

\* what is kept of a call once it has ended
\* (ce: standard error as the call leaves it)
Summary(c, outcome, cause, ce) ==
  [ kind |-> c.kind, ev |-> c.ev, outcome |-> outcome, cause |-> cause,
    r |-> c.r, real |-> c.real, key |-> c.key, count |-> c.count,
    nullslot |-> c.nullslot, rthrew |-> c.rthrew,
    errs |-> SubSeq(ce, c.e0 + 1, Len(ce)) ]

\* the first statement after the try block of a shim
AfterTry(kind) ==
  LET b == Body(kind, FALSE)
  IN CHOOSE j \in 1..Len(b) :
       /\ ~b[j].in_try
       /\ \A i \in 1..(j - 1) : b[i].in_try

\* an exception leaves statement st of call c: the shim's handler catches it
\* (catch (const std::exception&)) and the shim goes on after the try block
\* with the handle as it is (null when the real constructor threw), or the
\* exception leaves the shim; a constructor that throws leaves no object behind
Raise(c, cause, in_try, ce) ==
  IF in_try
  THEN /\ cur' = [c EXCEPT !.pc = AfterTry(c.kind), !.ev = Append(@, "CAUGHT")]
       /\ cout' = Append(cout, "Exception: ")
       /\ UNCHANGED << calls, use, handle >>
  ELSE /\ cur' = NoCall
       /\ calls' = Append(calls, Summary(c, "threw", cause, ce))
       /\ handle' = IF c.kind \in CtorKinds
                    THEN [handle EXCEPT ![ClassOf(c.kind)] = NULL]
                    ELSE handle
       /\ use' = IF c.kind = "xrt::device::device(unsigned int)" THEN 0 ELSE use
       /\ UNCHANGED cout

\* the client enters an intercepted entry point; a constructor runs on a new
\* object, whose handle is null until the real constructor has set it
BeginCall ==
  /\ Running
  /\ ~InCall
  /\ Len(calls) < MaxCalls
  /\ \E kind \in Kinds :
       /\ cur' = [NoCall EXCEPT !.kind = kind, !.pc = 1,
                    !.e0 = Len(cerr),
                    !.key = IF kind \in CtorKinds THEN NULL
                            ELSE handle[ClassOf(kind)]]
       /\ handle' = IF kind \in CtorKinds
                    THEN [handle EXCEPT ![ClassOf(kind)] = NULL]
                    ELSE handle
       /\ use' = IF kind = "xrt::device::device(unsigned int)" THEN 0 ELSE use
  /\ UNCHANGED << win32, proc, lg, trace, keys, calls, realCalls >>
  /\ UNCHANGED << rvars, ovars >>
  /\ UNCHANGED lvars
  /\ UNCHANGED pvars

\* the client copies a device wrapper (the copy shares the handle)
Copy ==
  /\ Running
  /\ ~InCall
  /\ handle["device"] # NULL
  /\ use < MaxCopies
  /\ use' = use + 1
  /\ UNCHANGED << win32, proc, lg, trace, handle, keys, cur, calls, realCalls >>
  /\ UNCHANGED << rvars, ovars >>
  /\ UNCHANGED lvars
  /\ UNCHANGED pvars

\* what the real implementation does when invoked
RealOutcomes(kind, op) ==
  IF kind \in DtorKinds
  THEN { [throws |-> FALSE, v |-> 0] }
  ELSE IF op = "CALL_METD_RET"
  THEN { [throws |-> FALSE, v |-> x] : x \in RetVals }
         \cup { [throws |-> TRUE, v |-> 0] }
  ELSE { [throws |-> FALSE, v |-> 0], [throws |-> TRUE, v |-> 0] }

\* variant: a call macro without the null test
InvokesUnchecked(fptr) == TRUE

\* "if (fptr)" of the XRT_TOOLS_XBT_CALL_* macros
Invokes(fptr) == fptr # NULL

\* variant: a call macro that drops the value the real method returned
AssignRetDropped(c, op, v) == c

\* "r = (this->*fptr)(...)" of XRT_TOOLS_XBT_CALL_METD_RET
AssignRet(c, op, v) ==
  IF op = "CALL_METD_RET" THEN [c EXCEPT !.r = v] ELSE c

\* XRT_TOOLS_XBT_CALL_CTOR / _METD / _METD_RET
StepCall ==
  /\ At(CallOps)
  /\ LET st == Prog[cur.pc]
         fptr == dtbl[st.slot]
     IN IF ~Invokes(fptr)
        THEN /\ cerr' = Append(cerr, st.slot)
             /\ cur' = [cur EXCEPT !.pc = @ + 1, !.nullslot = TRUE,
                                   !.ev = Append(@, "NULLSLOT")]
             /\ UNCHANGED << handle, use, keys, calls, realCalls, cout >>
        ELSE \E o \in RealOutcomes(cur.kind, st.op) :
               /\ realCalls' = Append(realCalls,
                                 [call |-> Len(calls) + 1, addr |-> fptr])
               /\ UNCHANGED cerr
               /\ IF o.throws
                  THEN /\ Raise([cur EXCEPT !.ev = Append(@, "FWD"),
                                            !.rthrew = TRUE], "real",
                                st.in_try, cerr)
                       /\ UNCHANGED keys
                  ELSE /\ cur' =
                            [AssignRet(cur, st.op, o.v) EXCEPT
                               !.pc = @ + 1,
                               !.real = o.v,
                               !.ev = Append(@, "FWD"),
                               !.key = IF st.op = "CALL_CTOR" THEN keys + 1
                                       ELSE @,
                               !.released = (cur.kind \in DtorKinds)]
                       /\ handle' = IF st.op = "CALL_CTOR"
                                    THEN [handle EXCEPT
                                            ![ClassOf(cur.kind)] = keys + 1]
                                    ELSE handle
                       /\ keys' = IF st.op = "CALL_CTOR" THEN keys + 1 ELSE keys
                       /\ use' = IF cur.kind = "xrt::device::device(unsigned int)"
                                 THEN 1 ELSE use
                       /\ UNCHANGED << calls, cout >>
  /\ UNCHANGED << win32, proc, lg, trace >>
  /\ UNCHANGED rvars
  /\ UNCHANGED lvars
  /\ UNCHANGED pvars

(* ------------------------------ the logger ---------------------------- *)
\* logger::get_instance(): the singleton as it is, or the outcome of building
\* it at first use.  With TRACE_APP_NAME or START_TIME unset the constructor
\* builds a std::string from a null pointer: it throws or the process dies.
\* fs::create_directory throws std::filesystem::filesystem_error when the
\* session directory cannot be created ("nodir" with "throw"); it returns
\* false, and the constructor reports it, only when the directory has
\* appeared by then.  A construction that threw is tried again at next use.
LogOutcomes(l) ==
  IF l = "unbuilt"
  THEN { [lg |-> "open", ub |-> "none"], [lg |-> "open", ub |-> "nodir"],
         [lg |-> "nofile", ub |-> "nodir"],
         [lg |-> "nofile", ub |-> "none"],
         [lg |-> "nodir", ub |-> "throw"],
         [lg |-> "no_app_name", ub |-> "throw"],
         [lg |-> "no_app_name", ub |-> "crash"],
         [lg |-> "no_start_time", ub |-> "throw"],
         [lg |-> "no_start_time", ub |-> "crash"] }
  ELSE IF l \in { "no_app_name", "no_start_time" }
  THEN { [lg |-> l, ub |-> "throw"], [lg |-> l, ub |-> "crash"] }
  ELSE IF l = "nodir"
  THEN { [lg |-> l, ub |-> "throw"] }
  ELSE { [lg |-> l, ub |-> "none"] }

\* what logger::logger() writes to std::cerr
LoggerCerr(l, o) ==
  IF o.lg = "no_start_time" THEN << "Environment variable START_TIME not set!" >>
  ELSE IF l = "unbuilt" /\ o.ub = "nodir" THEN << "Failed to create directory: " >>
  ELSE << >>

\* what logger::logger() writes to std::cout: the START_TIME it has read
LoggerCout(l, o) ==
  IF l = "unbuilt" /\ o.lg \in { "open", "nofile" }
  THEN << "Time retrieved from environment variable: " >>
  ELSE << >>

Rec(phase, key, sig, r) == [phase |-> phase, key |-> key, sig |-> sig, r |-> r]

\* the HEADER and START records logger::logger() writes
LoggerPrologue(l) ==
  IF l = "unbuilt"
  THEN << Rec("HEADER", NULL, "", 0), Rec("START", NULL, "", 0) >>
  ELSE << >>

\* the handle a trace point of call c reads: after the real destructor has run
\* the wrapper's handle is a destroyed object, and the read is undefined
HandleReads(c) ==
  IF c.released THEN { "null", "stale", "crash" } ELSE { "valid" }

\* variant: exit records written without the correlation key
TraceRecExitUnkeyed(op, h, c) ==
  IF op = "FUNC_ENTRY" THEN Rec("ENTRY", h, c.kind, 0)
  ELSE IF op = "FUNC_EXIT_RET" THEN Rec("EXIT", NULL, c.kind, c.r)
  ELSE Rec("EXIT", NULL, c.kind, 0)

\* the record a trace point hands to logger::log
TraceRec(op, h, c) ==
  IF op = "FUNC_ENTRY" THEN Rec("ENTRY", h, c.kind, 0)
  ELSE IF op = "FUNC_EXIT_RET" THEN Rec("EXIT", h, c.kind, c.r)
  ELSE Rec("EXIT", h, c.kind, 0)

\* variant: trace macros without the null test
HandleNeverNull(h) == FALSE

\* "nullptr == this->get_handle()" of the trace macros
HandleIsNull(h) == h = NULL

\* XRT_TOOLS_XBT_FUNC_ENTRY / _FUNC_EXIT / _FUNC_EXIT_RET
StepTrace ==
  /\ At({ "FUNC_ENTRY", "FUNC_EXIT", "FUNC_EXIT_RET" })
  /\ \E hr \in HandleReads(cur), o \in LogOutcomes(lg) :
       LET st == Prog[cur.pc]
           h == IF hr = "null" THEN NULL ELSE handle[ClassOf(cur.kind)]
           tag == IF st.op = "FUNC_ENTRY" THEN "ENTRY" ELSE "EXIT"
       IN IF hr = "crash"
          THEN /\ proc' = "crashed"
               /\ UNCHANGED << lg, trace, handle, use, cur, calls, cerr, cout >>
          ELSE IF HandleIsNull(h)
          THEN /\ cerr' = Append(cerr, "Handle")
               /\ cur' = [cur EXCEPT !.pc = @ + 1,
                                     !.ev = Append(@, "HANDLE_NULL")]
               /\ UNCHANGED << proc, lg, trace, handle, use, calls, cout >>
          ELSE /\ lg' = o.lg
               /\ cerr' = cerr \o LoggerCerr(lg, o)
               /\ IF o.ub = "crash"
                  THEN /\ proc' = "crashed"
                       /\ UNCHANGED << trace, handle, use, cur, calls, cout >>
                  ELSE IF o.ub = "throw"
                  THEN /\ Raise(cur, "logger", st.in_try, cerr \o LoggerCerr(lg, o))
                       /\ UNCHANGED << proc, trace >>
                  ELSE /\ trace' = IF o.lg = "open"
                                   THEN (trace \o LoggerPrologue(lg))
                                          \o << TraceRec(st.op, h, cur) >>
                                   ELSE trace
                       /\ cur' = [cur EXCEPT
                                    !.pc = @ + 1,
                                    !.ev = Append(@, IF o.lg = "open" THEN tag
                                                     ELSE "UNWRITTEN")]
                       /\ cout' = cout \o LoggerCout(lg, o)
                       /\ UNCHANGED << proc, handle, use, calls >>
  /\ UNCHANGED << win32, keys, realCalls >>
  /\ UNCHANGED rvars
  /\ UNCHANGED lvars
  /\ UNCHANGED pvars

\* "handle = this->get_handle();" of the device constructor shim
StepSetHandle ==
  /\ At({ "SET_HANDLE" })
  /\ cur' = [cur EXCEPT !.pc = @ + 1, !.ev = Append(@, "READ_HANDLE")]
  /\ UNCHANGED << win32, proc, lg, trace, handle, use, keys, calls, realCalls >>
  /\ UNCHANGED << rvars, ovars >>
  /\ UNCHANGED lvars
  /\ UNCHANGED pvars

\* fs::file_size(fnm), then the read of the file into the buffer
StepFileSize ==
  /\ At({ "FILE_SIZE" })
  /\ \E f \in { "ok", "unreadable", "missing" } :
       IF f = "missing"
       THEN /\ Raise(cur, "file_size", FALSE, cerr)
            /\ UNCHANGED cerr
       ELSE /\ cur' = [cur EXCEPT !.pc = @ + 1]
            /\ cerr' = IF f = "unreadable" THEN Append(cerr, "Failed to read ")
                       ELSE cerr
            /\ UNCHANGED << handle, use, calls, cout >>
  /\ UNCHANGED << win32, proc, lg, trace, keys, realCalls >>
  /\ UNCHANGED rvars
  /\ UNCHANGED lvars
  /\ UNCHANGED pvars

\* variant: a destructor shim that traces whatever the use count
GateAlways(count) == TRUE

\* "if (count < 2)" of the device destructor shim
Gate(count) == count < 2

\* "long count = handle.use_count(); if (count < 2) { ... }"
StepGate ==
  /\ At({ "GATE" })
  /\ cur' = [cur EXCEPT !.count = use,
                        !.pc = IF Gate(use) THEN @ + 1 ELSE Len(Prog) + 1]
  /\ UNCHANGED << win32, proc, lg, trace, handle, use, keys, calls, realCalls >>
  /\ UNCHANGED << rvars, ovars >>
  /\ UNCHANGED lvars
  /\ UNCHANGED pvars

\* the shim returns to its caller; a destructor's wrapper is gone, and with
\* the last wrapper the handle
EndCall ==
  /\ Running
  /\ InCall
  /\ cur.pc = Len(Prog) + 1
  /\ calls' = Append(calls, Summary(cur, "returned", "none", cerr))
  /\ cur' = NoCall
  /\ use' = IF cur.kind \in DtorKinds /\ use > 0 THEN use - 1 ELSE use
  /\ handle' = IF cur.kind \in DtorKinds /\ use <= 1
               THEN [handle EXCEPT !["device"] = NULL]
               ELSE handle
  /\ UNCHANGED << win32, proc, lg, trace, keys, realCalls >>
  /\ UNCHANGED << rvars, ovars >>
  /\ UNCHANGED lvars
  /\ UNCHANGED pvars

(* --------------------------- the logger layer ------------------------- *)
\* threads of the traced process; thread 1 runs main
Threads == { 1, 2 }

\* byte contents of the buffers handed to the trace macros
Payloads == { << >>, << 7 >>, << 1, 2 >> }

\* membuf::membuf(unsigned char* uptr, unsigned int usz); usz is an unsigned
\* int already
membuf(uptr, usz) == [ptr |-> uptr, sz |-> usz]

\* the trace macro invocations: without a buffer, or with a membuf as an
\* argument of FUNC_ENTRY, as the r of FUNC_EXIT_RET, or as a named value of
\* FUNC_EXIT
Events ==
  { [macro |-> m, at |-> "none", mb |-> membuf(<< >>, 0)] :
      m \in { "FUNC_ENTRY", "FUNC_EXIT" } }
  \cup { [macro |-> "FUNC_ENTRY", at |-> "arg", mb |-> membuf(p, Len(p))] :
           p \in Payloads }
  \cup { [macro |-> "FUNC_EXIT_RET", at |-> "ret", mb |-> membuf(p, Len(p))] :
           p \in Payloads }
  \cup { [macro |-> "FUNC_EXIT", at |-> "named", mb |-> membuf(p, Len(p))] :
           p \in Payloads }

NoText == [args |-> << >>, ret |-> << >>, named |-> << >>]

IdleThread ==
  [ pc |-> "idle", ev |-> [macro |-> "none", at |-> "none", mb |-> membuf(<< >>, 0)],
    pos |-> 0, str |-> NoText, raced |-> FALSE ]

\* the process is running and thread t is at pc
ThreadAt(t, pc) == proc = "running" /\ th[t].pc = pc

\* a thread enters a trace macro with a handle that is not null
EnterMacro(t) ==
  /\ ThreadAt(t, "idle")
  /\ nev < MaxEvents
  /\ \E e \in Events :
       th' = [th EXCEPT ![t] = [IdleThread EXCEPT !.pc = "get_instance", !.ev = e]]
  /\ nev' = nev + 1
  /\ UNCHANGED << linit, blob, pre, refs >>
  /\ UNCHANGED << rvars, ovars, cvars >>
  /\ UNCHANGED pvars

\* variant: a lazily built instance without the guard of a local static
MustConstructUnlessDone(l) == l # "done"

\* "static logger ptr;": the first thread to arrive constructs the object
MustConstruct(l) == l = "none"

\* logger::get_instance(); a thread that arrives while another constructs waits
get_instance(t) ==
  /\ ThreadAt(t, "get_instance")
  /\ MustConstruct(linit) \/ linit = "done"
  /\ IF MustConstruct(linit)
     THEN /\ linit' = "constructing"
          /\ th' = [th EXCEPT ![t].pc = "ctor"]
     ELSE /\ th' = [th EXCEPT ![t].pc = "args"]
          /\ UNCHANGED linit
  /\ UNCHANGED << blob, pre, nev, refs >>
  /\ UNCHANGED << rvars, ovars, cvars >>
  /\ UNCHANGED pvars

\* the outcomes of one run of logger::logger()
CtorOutcomes(l) ==
  IF l \in { "nodir", "no_app_name", "no_start_time" }
  THEN LogOutcomes(l)
  ELSE LogOutcomes("unbuilt")

\* std::ofstream::open(path, std::ios::out): an existing file is truncated
OpenOut(content) == << >>

\* logger::logger(): environment, session directory, the two files, HEADER
\* and START; an exception releases the guard and leaves the macro
Construct(t) ==
  /\ ThreadAt(t, "ctor")
  /\ \E o \in CtorOutcomes(lg) :
       /\ lg' = o.lg
       /\ cerr' = cerr \o LoggerCerr("unbuilt", o)
       /\ IF o.ub = "crash"
          THEN /\ proc' = "crashed"
               /\ UNCHANGED << linit, th, trace, blob, cout >>
          ELSE IF o.ub = "throw"
          THEN /\ linit' = "none"
               /\ th' = [th EXCEPT ![t] = IdleThread]
               /\ UNCHANGED << proc, trace, blob, cout >>
          ELSE /\ linit' = "done"
               /\ th' = [th EXCEPT ![t].pc = "args"]
               /\ trace' = IF o.lg = "open"
                           THEN OpenOut(trace) \o LoggerPrologue("unbuilt")
                           ELSE trace
               /\ blob' = IF o.lg = "open" THEN OpenOut(blob) ELSE blob
               /\ cout' = cout \o LoggerCout("unbuilt", o)
               /\ UNCHANGED proc
  /\ UNCHANGED << pre, nev, refs >>
  /\ UNCHANGED rvars
  /\ UNCHANGED << win32, handle, use, keys, cur, calls, realCalls >>
  /\ UNCHANGED pvars

\* operator<<(std::ostream&, const membuf&): each byte in decimal and a blank
InlineText(mb) ==
  [ i \in 1..(2 * mb.sz) |-> IF i % 2 = 1 THEN ToString(mb.ptr[(i + 1) \div 2])
                             ELSE " " ]

\* the argument strings of the macro that do not go through mb_stringify:
\* concat_args(__VA_ARGS__) of FUNC_ENTRY and stringify_args(r) of FUNC_EXIT_RET
ArgsText(e) ==
  [ NoText EXCEPT !.args = IF e.at = "arg" THEN InlineText(e.mb) ELSE << >>,
                  !.ret = IF e.at = "ret" THEN InlineText(e.mb) ELSE << >> ]

\* concat_arg_nv: only a named value whose type is membuf goes to mb_stringify
ToBlob(e) == e.at = "named"

\* the macro composes the record body
ComposeArgs(t) ==
  /\ ThreadAt(t, "args")
  /\ th' = [th EXCEPT ![t].str = ArgsText(th[t].ev),
                      ![t].pc = IF ToBlob(th[t].ev) THEN "tellp" ELSE "log"]
  /\ UNCHANGED << linit, blob, pre, nev, refs >>
  /\ UNCHANGED << rvars, ovars, cvars >>
  /\ UNCHANGED pvars

\* fd.tellp(): the bytes written to the stream so far, -1 on a failed stream
tellp(l, b) == IF l = "open" THEN Len(b) ELSE -1

\* "std::streampos pos = fd.tellp();" of mb_stringify
Tellp(t) ==
  /\ ThreadAt(t, "tellp")
  /\ th' = [th EXCEPT ![t].pos = tellp(lg, blob), ![t].pc = "write_tag"]
  /\ UNCHANGED << linit, blob, pre, nev, refs >>
  /\ UNCHANGED << rvars, ovars, cvars >>
  /\ UNCHANGED pvars

HexDigits ==
  << "0", "1", "2", "3", "4", "5", "6", "7", "8", "9", "a", "b", "c", "d", "e", "f" >>

RECURSIVE Hex(_)
\* "ss << std::hex << pos": pos printed as an unsigned 64-bit number
Hex(n) ==
  IF n < 0 THEN [i \in 1..16 |-> "f"]
  ELSE IF n < 16 THEN << HexDigits[n + 1] >>
  ELSE Append(Hex(n \div 16), HexDigits[(n % 16) + 1])

\* the string mb_stringify returns
MemRef(pos) ==
  << "mem@0x" >> \o Hex(pos) \o << "[filename:", "memdump.bin", "]" >>

\* the bytes of an unsigned int in memory (little-endian machine)
Bytes32(n) ==
  << n % 256, (n \div 256) % 256, (n \div 65536) % 256, (n \div 16777216) % 256 >>

\* variant: the tag written without its terminating NUL
ChunkTagUnterminated(stage, mb) ==
  IF stage = "write_tag" THEN << 109, 101, 109 >>
  ELSE IF stage = "write_sz" THEN Bytes32(mb.sz)
  ELSE SubSeq(mb.ptr, 1, mb.sz)

\* the three ofs.write calls of operator<<(std::ofstream&, const membuf&)
Chunk(stage, mb) ==
  IF stage = "write_tag" THEN << 109, 101, 109, 0 >>
  ELSE IF stage = "write_sz" THEN Bytes32(mb.sz)
  ELSE SubSeq(mb.ptr, 1, mb.sz)

BlobStages == << "write_tag", "write_sz", "write_ptr" >>

\* one write of "fd << a1;" in mb_stringify; after the last one the function
\* returns the reference text
BlobWrite(t) ==
  /\ proc = "running"
  /\ \E k \in DOMAIN BlobStages :
       /\ th[t].pc = BlobStages[k]
       /\ blob' = IF lg = "open" THEN blob \o Chunk(BlobStages[k], th[t].ev.mb)
                  ELSE blob
       /\ IF k < Len(BlobStages)
          THEN /\ th' = [th EXCEPT ![t].pc = BlobStages[k + 1]]
               /\ UNCHANGED refs
          ELSE /\ th' = [th EXCEPT ![t].pc = "log",
                                   ![t].str.named = MemRef(th[t].pos)]
               /\ refs' = Append(refs, [tid |-> t, mb |-> th[t].ev.mb,
                                        text |-> MemRef(th[t].pos)])
  /\ UNCHANGED << linit, pre, nev >>
  /\ UNCHANGED << rvars, ovars, cvars >>
  /\ UNCHANGED pvars

\* the line logger::log composes in ss
LogLine(macro, tid, str) ==
  [ phase |-> IF macro = "FUNC_ENTRY" THEN "ENTRY" ELSE "EXIT",
    tid |-> tid, body |-> str ]

\* logger::log reaches "fp << ss.str();": nothing excludes another thread
LogBegin(t) ==
  /\ ThreadAt(t, "log")
  /\ LET busy == { u \in Threads \ {t} : th[u].pc = "fp_write" }
     IN th' = [u \in Threads |->
                 IF u = t THEN [th[u] EXCEPT !.pc = "fp_write", !.raced = busy # {}]
                 ELSE IF u \in busy THEN [th[u] EXCEPT !.raced = TRUE]
                 ELSE th[u]]
  /\ UNCHANGED << linit, blob, pre, nev, refs >>
  /\ UNCHANGED << rvars, ovars, cvars >>
  /\ UNCHANGED pvars

\* what unsynchronised insertions into one stream leave of a line
WriteOutcomes(raced) ==
  IF raced THEN { "whole", "merged", "lost" } ELSE { "whole" }

\* "fp << ss.str();" completes
LogEnd(t) ==
  /\ ThreadAt(t, "fp_write")
  /\ \E w \in WriteOutcomes(th[t].raced) :
       LET line == LogLine(th[t].ev.macro, t, th[t].str)
       IN trace' = IF lg # "open" \/ w = "lost" THEN trace
                   ELSE IF w = "merged"
                   THEN Append(trace, [line EXCEPT !.phase = "TORN"])
                   ELSE Append(trace, line)
  /\ th' = [th EXCEPT ![t] = IdleThread]
  /\ UNCHANGED << linit, blob, pre, nev, refs >>
  /\ UNCHANGED << rvars, ovars >>
  /\ UNCHANGED << win32, proc, lg, handle, use, keys, cur, calls, realCalls >>
  /\ UNCHANGED pvars

\* main has returned and the other threads are joined: static destruction
\* runs logger::~logger() up to "fp << |END|" when the instance was built
DtorEnd ==
  /\ proc = "running"
  /\ \A t \in Threads : th[t].pc = "idle"
  /\ proc' = IF linit = "done" THEN "exiting" ELSE "exited"
  /\ trace' = IF linit = "done" /\ lg = "open"
              THEN Append(trace, Rec("END", NULL, "", 0))
              ELSE trace
  /\ UNCHANGED lvars
  /\ UNCHANGED << rvars, ovars >>
  /\ UNCHANGED << win32, lg, handle, use, keys, cur, calls, realCalls >>
  /\ UNCHANGED pvars

\* "fp_bin.close(); fp.close();" of logger::~logger()
DtorClose ==
  /\ proc = "exiting"
  /\ proc' = "exited"
  /\ lg' = IF lg = "open" THEN "closed" ELSE lg
  /\ UNCHANGED lvars
  /\ UNCHANGED << rvars, ovars >>
  /\ UNCHANGED << win32, trace, handle, use, keys, cur, calls, realCalls >>
  /\ UNCHANGED pvars

(* ------------------------------ logger::timediff ---------------------- *)
giga == 1000000000

fw_9 == 9

\* timespec values of the clock and of START_TIME
Timespecs == [tv_sec : { 0, 1, 3 }, tv_nsec : { 0, 1, 500000000, 999999999 }]

\* a signed 64-bit value converted to uint64_t: its four 16-bit limbs, the
\* lowest first (two's complement, a negative value wraps)
ToU64(x) ==
  << x % 65536, (x \div 65536) % 65536,
     ((x \div 65536) \div 65536) % 65536,
     (((x \div 65536) \div 65536) \div 65536) % 65536 >>

\* a uint64_t divided by ten: quotient limbs and remainder
Div10(l) ==
  LET x4 == l[4]
      x3 == (x4 % 10) * 65536 + l[3]
      x2 == (x3 % 10) * 65536 + l[2]
      x1 == (x2 % 10) * 65536 + l[1]
  IN [q |-> << x1 \div 10, x2 \div 10, x3 \div 10, x4 \div 10 >>, r |-> x1 % 10]

RECURSIVE Digits64(_)
Digits64(l) ==
  IF l = << 0, 0, 0, 0 >> THEN << >>
  ELSE Append(Digits64(Div10(l).q), Div10(l).r)

\* "oss << n" for a uint64_t: its decimal digits
Dec64(l) == IF l = << 0, 0, 0, 0 >> THEN << 0 >> ELSE Digits64(l)

\* std::setfill('0') << std::setw(w): zeros in front up to width w, never cut
SetwZero(ds, w) == [i \in 1..(w - Len(ds)) |-> 0] \o ds

\* variant: the nanoseconds subtracted without borrowing a second
timediffNoBorrow(now, then) ==
  LET sec == ToU64(now.tv_sec - then.tv_sec)
      nsec == ToU64(now.tv_nsec - then.tv_nsec)
  IN [ sec |-> sec, nsec |-> nsec,
       int |-> Dec64(sec), frac |-> SetwZero(Dec64(nsec), fw_9) ]

\* logger::timediff: sec and nsec, and the integer and fraction parts of the
\* string "<sec>.<nsec>" it returns
timediff(now, then) ==
  LET borrow == now.tv_nsec < then.tv_nsec
      sec == ToU64(IF borrow THEN now.tv_sec - then.tv_sec - 1
                   ELSE now.tv_sec - then.tv_sec)
      nsec == ToU64(IF borrow THEN giga + now.tv_nsec - then.tv_nsec
                    ELSE now.tv_nsec - then.tv_nsec)
  IN [ sec |-> sec, nsec |-> nsec,
       int |-> Dec64(sec), frac |-> SetwZero(Dec64(nsec), fw_9) ]

\* logger::log calls timediff(time_now, start_time)
CallTimediff ==
  /\ res = << >>
  /\ arg # << >>
  /\ res' = timediff(arg.now, arg.thn)
  /\ UNCHANGED << env_mutex, arg >>
  /\ UNCHANGED << rvars, ovars, cvars, lvars >>

(* ------------------------- environment accesses ----------------------- *)
\* the functions of the capture library that read the environment on the
\* symbol-table platform, and the variables each reads, in order
EnvReaders == { "find_library_path", "logger::logger" }

EnvReads(fn) ==
  IF fn = "find_library_path" THEN << "LD_PRELOAD" >>
  ELSE << "INST_DEBUG", "TRACE_APP_NAME", "START_TIME" >>

\* variant: only the resolver takes the lock
LockGuardedResolverOnly(fn) == fn = "find_library_path"

\* "std::lock_guard<std::mutex> lock(env_mutex);" opens the function
LockGuarded(fn) == fn \in EnvReaders

\* the variables whose absence the function does not survive: a std::string
\* is built from the null pointer getenv returned
FatalWhenUnset == { "TRACE_APP_NAME", "START_TIME" }

EnvIdle == [pc |-> "idle", fn |-> "none", pos |-> 0]

\* a thread enters one of the functions
EnvCall(t) ==
  /\ proc = "running"
  /\ th[t].pc = "idle"
  /\ arg < MaxEnvCalls
  /\ \E fn \in EnvReaders : th' = [th EXCEPT ![t] = [pc |-> "lock", fn |-> fn, pos |-> 1]]
  /\ arg' = arg + 1
  /\ UNCHANGED << env_mutex, res >>
  /\ UNCHANGED << rvars, ovars, cvars >>
  /\ UNCHANGED << linit, blob, pre, nev, refs >>

\* the lock_guard is constructed: the thread waits until the mutex is free
EnvLock(t) ==
  /\ proc = "running"
  /\ th[t].pc = "lock"
  /\ LockGuarded(th[t].fn) => env_mutex = NULL
  /\ env_mutex' = IF LockGuarded(th[t].fn) THEN t ELSE env_mutex
  /\ th' = [th EXCEPT ![t].pc = "getenv"]
  /\ UNCHANGED << arg, res >>
  /\ UNCHANGED << rvars, ovars, cvars >>
  /\ UNCHANGED << linit, blob, pre, nev, refs >>

\* one getenv of the function; find_library_path returns "" when LD_PRELOAD
\* is unset, the logger constructor throws or dies on an unset variable it
\* needs
EnvGetenv(t) ==
  /\ proc = "running"
  /\ th[t].pc = "getenv"
  /\ LET name == EnvReads(th[t].fn)[th[t].pos]
         last == th[t].pos = Len(EnvReads(th[t].fn))
     IN /\ res' = Append(res, [tid |-> t, name |-> name, held |-> env_mutex = t])
        /\ \E set \in BOOLEAN, ub \in { "throw", "crash" } :
             IF ~set /\ name \in FatalWhenUnset /\ ub = "crash"
             THEN /\ proc' = "crashed"
                  /\ UNCHANGED th
             ELSE /\ th' = [th EXCEPT
                              ![t].pc = IF last \/ (~set /\ name \in FatalWhenUnset)
                                           \/ (~set /\ name = "LD_PRELOAD")
                                        THEN "return" ELSE "getenv",
                              ![t].pos = @ + 1]
                  /\ UNCHANGED proc
  /\ UNCHANGED << env_mutex, arg >>
  /\ UNCHANGED << rvars, ovars >>
  /\ UNCHANGED << win32, lg, trace, handle, use, keys, cur, calls, realCalls >>
  /\ UNCHANGED << linit, blob, pre, nev, refs >>

\* the function returns or an exception leaves it: ~lock_guard unlocks
EnvReturn(t) ==
  /\ proc = "running"
  /\ th[t].pc = "return"
  /\ env_mutex' = IF env_mutex = t THEN NULL ELSE env_mutex
  /\ th' = [th EXCEPT ![t] = EnvIdle]
  /\ UNCHANGED << arg, res >>
  /\ UNCHANGED << rvars, ovars, cvars >>
  /\ UNCHANGED << linit, blob, pre, nev, refs >>

(* ------------------------ find_and_replace_all, stepwise -------------- *)
RECURSIVE StringsUpTo(_)
\* the strings of at most n characters out of a, b and the comma
StringsUpTo(n) ==
  IF n = 0 THEN { << >> }
  ELSE StringsUpTo(n - 1)
         \cup { Append(w, c) : w \in { v \in StringsUpTo(n - 1) : Len(v) = n - 1 },
                               c \in { "a", "b", "," } }

\* pairs (pattern, replacement) with non-empty patterns; "," by ", " is one
\* of the replacements of demangle
Pairs ==
  { << << "," >>, << ",", " " >> >>,
    << << "a" >>, << >> >>,
    << << "a", "b" >>, << "b" >> >>,
    << << "b" >>, << "a" >> >> }

\* the replacement lists: at most MaxPairs pairs
ReplacementLists ==
  UNION { [1..n -> Pairs] : n \in 0..MaxPairs }

\* variant: the scan resumed behind the pattern's length
NextPosByPattern(p, first, second) == p + Len(first)

\* "pos += pair.second.length();"
NextPos(p, first, second) == p + Len(second)

\* one evaluation of the while condition, and the loop body when the pattern
\* is found; otherwise the for loop moves to the next pair
ReplaceStep ==
  /\ ~res.done
  /\ res.k <= Len(arg.replacements)
  /\ LET first == arg.replacements[res.k][1]
         second == arg.replacements[res.k][2]
         p == Find(res.str, first, res.pos)
     IN res' = IF p = 0
               THEN [res EXCEPT !.k = @ + 1, !.pos = 1, !.n = 0, !.s0 = res.str,
                                !.hits = Append(@, res.n)]
               ELSE [res EXCEPT
                       !.str = SubSeq(res.str, 1, p - 1) \o second
                                 \o SubSeq(res.str, p + Len(first), Len(res.str)),
                       !.pos = NextPos(p, first, second),
                       !.n = @ + 1]
  /\ UNCHANGED << env_mutex, arg >>
  /\ UNCHANGED << rvars, ovars, cvars, lvars >>

\* "return str;"
ReplaceReturn ==
  /\ ~res.done
  /\ res.k > Len(arg.replacements)
  /\ res' = [res EXCEPT !.done = TRUE]
  /\ UNCHANGED << env_mutex, arg >>
  /\ UNCHANGED << rvars, ovars, cvars, lvars >>

(* ------------------------ START_TIME hand-off ------------------------- *)
\* the decimal digit characters
DigitChars == << "0", "1", "2", "3", "4", "5", "6", "7", "8", "9" >>

RECURSIVE NatToStr(_)
NatToStr(n) ==
  IF n < 10 THEN << DigitChars[n + 1] >>
  ELSE Append(NatToStr(n \div 10), DigitChars[(n % 10) + 1])

\* "oss << n" for a long
LongToStr(n) == IF n < 0 THEN << "-" >> \o NatToStr(-n) ELSE NatToStr(n)

\* std::setw(w) with fill character '0': filled in front, never cut
PadZero(s, w) == [i \in 1..(w - Len(s)) |-> "0"] \o s

\* variant: the character between the two numbers left in the stream
IgnoreNone(st, n, delim) == st

\* iss.ignore(n, delim) for n <= 1: nothing on a failed stream, otherwise
\* one character taken out when there is one
Ignore(st, n, delim) ==
  IF st.fail \/ n = 0 THEN st
  ELSE IF st.buf = << >> THEN [st EXCEPT !.fail = TRUE]
  ELSE [st EXCEPT !.buf = Tail(@)]

RECURSIVE DigitRun(_)
\* the digits at the front of a string
DigitRun(s) ==
  IF s # << >> /\ (\E d \in 1..10 : DigitChars[d] = Head(s)) THEN << Head(s) >> \o DigitRun(Tail(s)) ELSE << >>

RECURSIVE StrToNat(_, _)
StrToNat(ds, acc) ==
  IF ds = << >> THEN acc
  ELSE StrToNat(Tail(ds),
                ((acc * 10) + (CHOOSE d \in 1..10 : DigitChars[d] = Head(ds))) - 1)

\* "iss >> x" for a long x holding old: a failed stream leaves x alone; a sign
\* and digits are taken out and converted; without a digit the stream fails
\* and x becomes 0
ExtractLong(st, old) ==
  IF st.fail THEN [st |-> st, val |-> old]
  ELSE LET neg == st.buf # << >> /\ Head(st.buf) = "-"
           body == IF neg THEN Tail(st.buf) ELSE st.buf
           ds == DigitRun(body)
           rest == SubSeq(body, Len(ds) + 1, Len(body))
       IN IF ds = << >>
          THEN [st |-> [buf |-> rest, fail |-> TRUE], val |-> 0]
          ELSE [st |-> [buf |-> rest, fail |-> FALSE],
                val |-> IF neg THEN 0 - StrToNat(ds, 0) ELSE StrToNat(ds, 0)]

\* localtime_r under a zone tz seconds east of UTC: the broken-down time
\* (proleptic Gregorian calendar)
localtime_xp(timer, tz) ==
  LET t == timer + tz
      z == (t \div 86400) + 719468
      sod == t % 86400
      era == z \div 146097
      doe == z % 146097
      yoe == (((doe - (doe \div 1460)) + (doe \div 36524)) - (doe \div 146096)) \div 365
      doy == doe - (((365 * yoe) + (yoe \div 4)) - (yoe \div 100))
      mp == ((5 * doy) + 2) \div 153
      mon == IF mp < 10 THEN mp + 3 ELSE mp - 9
  IN [ year |-> (yoe + (era * 400)) + (IF mon <= 2 THEN 1 ELSE 0),
       mon |-> mon,
       mday |-> (doy - (((153 * mp) + 2) \div 5)) + 1,
       hour |-> sod \div 3600,
       min |-> (sod % 3600) \div 60,
       sec |-> sod % 60 ]

\* one conversion specification or literal character of a time format
FormatField(tm, f) ==
  CASE f = "%Y" -> NatToStr(tm.year)
    [] f = "%m" -> PadZero(NatToStr(tm.mon), 2)
    [] f = "%d" -> PadZero(NatToStr(tm.mday), 2)
    [] f = "%H" -> PadZero(NatToStr(tm.hour), 2)
    [] f = "%M" -> PadZero(NatToStr(tm.min), 2)
    [] f = "%S" -> PadZero(NatToStr(tm.sec), 2)
    [] OTHER -> << f >>

RECURSIVE FormatTime(_, _)
\* std::put_time / std::strftime: the format expanded from left to right
FormatTime(tm, fmt) ==
  IF fmt = << >> THEN << >>
  ELSE FormatField(tm, Head(fmt)) \o FormatTime(tm, Tail(fmt))

\* print_trace_location: the directory name announced by the launcher
formatted_time(tv_sec, tz) ==
  FormatTime(localtime_xp(tv_sec, tz),
             << "%Y", "-", "%m", "-", "%d", "_", "%H", "-", "%M", "-", "%S" >>)

\* timespec_to_str: the directory name used by the logger
timespec_to_str(time, tz) ==
  FormatTime(localtime_xp(time.tv_sec, tz),
             << "%Y", "-", "%m", "-", "%d", "_", "%H", "-", "%M", "-", "%S" >>)

\* set_envs: m_start_time (here arg) written to START_TIME, and the trace
\* location printed when the capture library was found
set_envs ==
  /\ res.pc = "launcher"
  /\ res' = [res EXCEPT
       !.pc = "child",
       !.START_TIME = (LongToStr(arg.tv_sec) \o << "." >>)
                         \o PadZero(LongToStr(arg.tv_nsec), fw_9),
       !.announced = IF arg.lib THEN formatted_time(arg.tv_sec, arg.tz) ELSE << >>]
  /\ UNCHANGED << env_mutex, arg >>
  /\ UNCHANGED << rvars, ovars, cvars, lvars >>

\* logger::logger in the child: START_TIME converted back to a timespec and
\* the directory named after it
ParseStartTime ==
  /\ res.pc = "child"
  /\ LET iss == [buf |-> res.START_TIME, fail |-> FALSE]
         s1 == ExtractLong(iss, res.start_time.tv_sec)
         s2 == Ignore(s1.st, 1, ".")
         s3 == ExtractLong(s2, res.start_time.tv_nsec)
         start_time == [tv_sec |-> s1.val, tv_nsec |-> s3.val]
     IN res' = [res EXCEPT !.pc = "logger",
                           !.start_time = start_time,
                           !.time_fmt_str = timespec_to_str(start_time, arg.tz)]
  /\ UNCHANGED << env_mutex, arg >>
  /\ UNCHANGED << rvars, ovars, cvars, lvars >>

(* ------------------------ launcher: launch_process -------------------- *)
\* "constexpr unsigned int max_cmd_args = 8;"
max_cmd_args == 8

\* a pointer value that was never written (neither null nor a token)
Indeterminate == -1

\* the tokens of the child command: token i stands for the address of its
\* characters
ChildCmdArgs == { [i \in 1..n |-> i] : n \in 1..MaxTokens }

\* "char *command_args[max_cmd_args];" has no initialiser: any contents
UninitialisedArrays == [1..max_cmd_args -> { NULL, Indeterminate }]

\* convert_to_c_array: the return code and the array afterwards
convert_to_c_array(vec, arr, arr_sz) ==
  IF arr_sz <= Len(vec)
  THEN [rc |-> -1, arr |-> arr]
  ELSE [rc |-> 0,
        arr |-> [i \in DOMAIN arr |->
                   IF i <= Len(vec) THEN vec[i]
                   ELSE IF i = Len(vec) + 1 THEN NULL
                   ELSE arr[i]]]

\* launch_process: the call of convert_to_c_array; its return value is
\* not kept
CallConvert ==
  /\ res.pc = "convert"
  /\ LET r == convert_to_c_array(arg, res.command_args, max_cmd_args)
     IN res' = [res EXCEPT !.pc = "execve", !.command_args = r.arr, !.rc = r.rc,
                           !.log_e = (r.rc # 0)]
  /\ UNCHANGED << env_mutex, arg >>
  /\ UNCHANGED << rvars, ovars, cvars, lvars >>

\* launch_process: execve(m_child_cmd_args.front().data(), command_args, environ)
CallExecve ==
  /\ res.pc = "execve"
  /\ res' = [res EXCEPT !.pc = "called",
                        !.path = Head(arg),
                        !.argv = res.command_args]
  /\ UNCHANGED << env_mutex, arg >>
  /\ UNCHANGED << rvars, ovars, cvars, lvars >>

(* --------------------------- specifications --------------------------- *)
ClientInit ==
  /\ proc = "running"
  /\ lg = "unbuilt"
  /\ trace = << >>
  /\ handle = [c \in Classes |-> NULL]
  /\ use = 0
  /\ keys = 0
  /\ cur = NoCall
  /\ calls = << >>
  /\ realCalls = << >>
  /\ cerr = << >>
  /\ cout = << >>
  /\ linit = "none"
  /\ th = [t \in Threads |-> IdleThread]
  /\ blob = << >>
  /\ pre = [txt |-> << >>, bin |-> << >>]
  /\ nev = 0
  /\ refs = << >>
  /\ env_mutex = NULL
  /\ arg = << >>
  /\ res = << >>

\* the process from the load of the capture library on (symbol-table platform)
Init ==
  /\ rpc = "static_init"
  /\ nsyms = 0
  /\ symtab = << >>
  /\ func_mangled = EmptyMap
  /\ pending = {}
  /\ dtbl = [s \in Slots |-> NULL]
  /\ writes = [s \in Slots |-> 0]
  /\ fptr2fname_map = EmptyMap
  /\ dlsyms = {}
  /\ win32 = FALSE
  /\ ClientInit

RouterNext == LoadSymbolsOpen \/ ReadSymbol \/ Dlopen \/ ResolveOne

ShimNext ==
  \/ BeginCall
  \/ Copy
  \/ StepCall
  \/ StepTrace
  \/ StepSetHandle
  \/ StepFileSize
  \/ StepGate
  \/ EndCall

Next == RouterNext \/ ShimNext

Spec == Init /\ [][Next]_vars

\* the address a resolved slot holds
RealAddr(slot) == 1

\* the dispatch tables the shim layer is checked against
Tables ==
  { [s \in Slots |-> IF s \in N THEN NULL ELSE RealAddr(s)] :
      N \in { n \in SUBSET Slots : Cardinality(n) <= MaxNullSlots } }

\* the shim layer alone, over a dispatch table given at start
InitShim ==
  /\ rpc = "done"
  /\ nsyms = 0
  /\ symtab = << >>
  /\ func_mangled = EmptyMap
  /\ pending = {}
  /\ dtbl \in Tables
  /\ writes = [s \in Slots |-> 0]
  /\ fptr2fname_map = EmptyMap
  /\ dlsyms = {}
  /\ win32 \in BOOLEAN
  /\ ClientInit

SpecShim == InitShim /\ [][ShimNext]_vars

\* what the session directory may hold when the process starts: nothing, or
\* the two files of an earlier session with the same START_TIME
PreStates ==
  { [txt |-> << >>, bin |-> << >>],
    [txt |-> LoggerPrologue("unbuilt") \o << Rec("END", NULL, "", 0) >>,
     bin |-> Chunk("write_tag", membuf(<< >>, 0)) \o Chunk("write_sz", membuf(<< >>, 0))] }

\* the logger layer alone: threads that run trace macros on valid handles
InitLog ==
  /\ rpc = "done"
  /\ nsyms = 0
  /\ symtab = << >>
  /\ func_mangled = EmptyMap
  /\ pending = {}
  /\ dtbl = [s \in Slots |-> RealAddr(s)]
  /\ writes = [s \in Slots |-> 0]
  /\ fptr2fname_map = EmptyMap
  /\ dlsyms = {}
  /\ win32 = FALSE
  /\ proc = "running"
  /\ lg = "unbuilt"
  /\ handle = [c \in Classes |-> NULL]
  /\ use = 0
  /\ keys = 0
  /\ cur = NoCall
  /\ calls = << >>
  /\ realCalls = << >>
  /\ cerr = << >>
  /\ cout = << >>
  /\ linit = "none"
  /\ th = [t \in Threads |-> IdleThread]
  /\ pre \in PreStates
  /\ trace = pre.txt
  /\ blob = pre.bin
  /\ nev = 0
  /\ refs = << >>
  /\ env_mutex = NULL
  /\ arg = << >>
  /\ res = << >>

\* the shim layer from the moment on at which the client holds one device,
\* constructed and traced as key 1, in one or more wrappers
InitDtor ==
  /\ rpc = "done"
  /\ nsyms = 0
  /\ symtab = << >>
  /\ func_mangled = EmptyMap
  /\ pending = {}
  /\ dtbl \in { d \in Tables : d["dtbl.device.ctor"] # NULL }
  /\ writes = [s \in Slots |-> 0]
  /\ fptr2fname_map = EmptyMap
  /\ dlsyms = {}
  /\ win32 \in BOOLEAN
  /\ proc = "running"
  /\ lg \in { "open", "nofile" }
  /\ trace = IF lg = "open"
             THEN LoggerPrologue("unbuilt")
                    \o << Rec("ENTRY", 1, "xrt::device::device(unsigned int)", 0),
                          Rec("EXIT", 1, "xrt::device::device(unsigned int)", 0) >>
             ELSE << >>
  /\ handle = [c \in Classes |-> IF c = "device" THEN 1 ELSE NULL]
  /\ use \in 1..MaxCopies
  /\ keys = 1
  /\ cur = NoCall
  /\ calls = << >>
  /\ realCalls = << >>
  /\ cerr = << >>
  /\ cout = << "Time retrieved from environment variable: " >>
  /\ linit = "none"
  /\ th = [t \in Threads |-> IdleThread]
  /\ blob = << >>
  /\ pre = [txt |-> << >>, bin |-> << >>]
  /\ nev = 0
  /\ refs = << >>
  /\ env_mutex = NULL
  /\ arg = << >>
  /\ res = << >>

SpecDtor == InitDtor /\ [][ShimNext]_vars

\* a process in which the router has run and nothing has been traced yet
IdleProcess ==
  /\ rpc = "done"
  /\ nsyms = 0
  /\ symtab = << >>
  /\ func_mangled = EmptyMap
  /\ pending = {}
  /\ dtbl = [s \in Slots |-> RealAddr(s)]
  /\ writes = [s \in Slots |-> 0]
  /\ fptr2fname_map = EmptyMap
  /\ dlsyms = {}
  /\ win32 = FALSE
  /\ proc = "running"
  /\ lg = "unbuilt"
  /\ trace = << >>
  /\ handle = [c \in Classes |-> NULL]
  /\ use = 0
  /\ keys = 0
  /\ cur = NoCall
  /\ calls = << >>
  /\ realCalls = << >>
  /\ cerr = << >>
  /\ cout = << >>
  /\ linit = "none"
  /\ th = [t \in Threads |-> IdleThread]
  /\ blob = << >>
  /\ pre = [txt |-> << >>, bin |-> << >>]
  /\ nev = 0
  /\ refs = << >>

\* logger::timediff applied to a pair of timespecs
InitTime ==
  /\ IdleProcess
  /\ env_mutex = NULL
  /\ arg \in [now : Timespecs, thn : Timespecs]
  /\ res = << >>

SpecTime == InitTime /\ [][CallTimediff]_vars

\* threads that run the environment-reading functions of the library
InitEnv ==
  /\ rpc = "done"
  /\ nsyms = 0
  /\ symtab = << >>
  /\ func_mangled = EmptyMap
  /\ pending = {}
  /\ dtbl = [s \in Slots |-> RealAddr(s)]
  /\ writes = [s \in Slots |-> 0]
  /\ fptr2fname_map = EmptyMap
  /\ dlsyms = {}
  /\ win32 = FALSE
  /\ proc = "running"
  /\ lg = "unbuilt"
  /\ trace = << >>
  /\ handle = [c \in Classes |-> NULL]
  /\ use = 0
  /\ keys = 0
  /\ cur = NoCall
  /\ calls = << >>
  /\ realCalls = << >>
  /\ cerr = << >>
  /\ cout = << >>
  /\ linit = "none"
  /\ th = [t \in Threads |-> EnvIdle]
  /\ blob = << >>
  /\ pre = [txt |-> << >>, bin |-> << >>]
  /\ nev = 0
  /\ refs = << >>
  /\ env_mutex = NULL
  /\ arg = 0
  /\ res = << >>

\* what a thread does once it is inside one of the functions
EnvStep(t) == EnvLock(t) \/ EnvGetenv(t) \/ EnvReturn(t)

EnvNext ==
  \/ \E t \in Threads : EnvCall(t)
  \/ \E t \in Threads : EnvLock(t)
  \/ \E t \in Threads : EnvGetenv(t)
  \/ \E t \in Threads : EnvReturn(t)

\* every thread inside a function is scheduled again and again
SpecEnv == InitEnv /\ [][EnvNext]_vars /\ \A t \in Threads : WF_vars(EnvStep(t))

\* find_and_replace_all called on a string and a replacement list
InitReplace ==
  /\ IdleProcess
  /\ env_mutex = NULL
  /\ arg \in [str : StringsUpTo(MaxStrLen), replacements : ReplacementLists]
  /\ res = [str |-> arg.str, k |-> 1, pos |-> 1, n |-> 0, s0 |-> arg.str,
            hits |-> << >>, done |-> FALSE]

\* the function keeps running until it returns
SpecReplace ==
  InitReplace /\ [][ReplaceStep \/ ReplaceReturn]_vars
    /\ WF_vars(ReplaceStep \/ ReplaceReturn)

\* the launcher about to set the environment of the child: the start time,
\* the offset of the local time zone, and whether the library was found
InitHandoff ==
  /\ IdleProcess
  /\ env_mutex = NULL
  /\ arg \in [tv_sec : { -1, 0, 86399, 951827696, 1798761599, 2147000000 },
               tv_nsec : { 0, 1, 500000000, 999999999 },
               tz : { 0, 19800, -28800 },
               lib : BOOLEAN]
  /\ res = [pc |-> "launcher", START_TIME |-> << >>, announced |-> << >>,
            start_time |-> [tv_sec |-> 0, tv_nsec |-> 0], time_fmt_str |-> << >>]

SpecHandoff == InitHandoff /\ [][set_envs \/ ParseStartTime]_vars

\* launch_process entered with the tokens of the child command
InitLaunch ==
  /\ IdleProcess
  /\ env_mutex = NULL
  /\ arg \in ChildCmdArgs
  /\ \E a \in UninitialisedArrays :
       res = [pc |-> "convert", command_args |-> a, rc |-> 0, log_e |-> FALSE,
              path |-> NULL, argv |-> << >>]

SpecLaunch == InitLaunch /\ [][CallConvert \/ CallExecve]_vars

LogNext ==
  \/ \E t \in Threads : EnterMacro(t)
  \/ \E t \in Threads : get_instance(t)
  \/ \E t \in Threads : Construct(t)
  \/ \E t \in Threads : ComposeArgs(t)
  \/ \E t \in Threads : Tellp(t)
  \/ \E t \in Threads : BlobWrite(t)
  \/ \E t \in Threads : LogBegin(t)
  \/ \E t \in Threads : LogEnd(t)
  \/ DtorEnd
  \/ DtorClose

SpecLog == InitLog /\ [][LogNext]_vars

(* ------------------------------ properties ---------------------------- *)
Range(f) == { f[i] : i \in DOMAIN f }

\* the calls seen so far, ended or in progress: << kind, events >>
CallEvents ==
  { << calls[i].kind, calls[i].ev >> : i \in DOMAIN calls } \cup
  (IF InCall THEN { << cur.kind, cur.ev >> } ELSE {})

\* how often call number i went through the dispatch table
Forwards(i) == Cardinality({ j \in DOMAIN realCalls : realCalls[j].call = i })

\* the ENTRY and EXIT records of the trace text (HEADER and START left out)
TraceBody == SelectSeq(trace, LAMBDA rec : rec.phase \in { "ENTRY", "EXIT" })

\* a call macro that finds its slot null writes one line naming the slot,
\* invokes nothing and moves on to the next statement of the shim
NullSlotStep ==
  (At(CallOps) /\ dtbl[Prog[cur.pc].slot] = NULL) =>
    /\ realCalls' = realCalls
    /\ cerr' = Append(cerr, Prog[cur.pc].slot)
    /\ cur'.kind = cur.kind
    /\ cur'.pc = cur.pc + 1
    /\ proc' = "running"
    /\ calls' = calls
    /\ trace' = trace

\* nothing is ever invoked through a null slot, and every call that met a
\* null slot has its slot named on standard error
NullSlotSafe ==
  /\ \A j \in DOMAIN realCalls : realCalls[j].addr # NULL
  /\ \A i \in DOMAIN calls :
       calls[i].nullslot =>
         /\ Forwards(i) = 0
         /\ SlotOf(calls[i].kind) \in Range(cerr)

\* C1: for each call macro, when the dispatch slot is null the shim never
\* invokes through it, names the slot on standard error, and goes on after
\* the macro so that the shim returns normally to its caller.
C1_NullSlotReturnsNormally ==
  /\ NullSlotSafe
  /\ \A i \in DOMAIN calls :
       calls[i].nullslot => calls[i].outcome = "returned"

\* what does hold of a null slot: nothing is invoked, the slot is named, the
\* shim goes on with the statement after the macro, and it returns normally
\* unless fs::file_size of load_xclbin(const std::string&) throws afterwards
NullSlotSkipsAndContinues ==
  /\ [][NullSlotStep]_vars
  /\ [](NullSlotSafe)
  /\ [](\A i \in DOMAIN calls :
          calls[i].nullslot =>
            \/ calls[i].outcome = "returned"
            \/ /\ calls[i].cause = "file_size"
               /\ calls[i].kind = "xrt::device::load_xclbin(const std::string&)")

\* the trace body is one ENTRY/EXIT pair per ended call, in call order, each
\* pair with one key and one signature
PairedInCallOrder ==
  /\ Len(TraceBody) = 2 * Len(calls)
  /\ \A i \in DOMAIN calls :
       /\ TraceBody[2 * i - 1].phase = "ENTRY"
       /\ TraceBody[2 * i].phase = "EXIT"
       /\ TraceBody[2 * i - 1].key = TraceBody[2 * i].key
       /\ TraceBody[2 * i - 1].sig = calls[i].kind
       /\ TraceBody[2 * i].sig = calls[i].kind

TracedCall(c) ==
  /\ c.kind \notin DtorKinds
  /\ dtbl[SlotOf(c.kind)] # NULL
  /\ c.outcome = "returned"
  /\ c.key # NULL

C3_CtorForwardsBeforeHandleRead ==
  \A c \in CallEvents :
    (c[1] \in CtorKinds /\ c[2] # << >>) =>
      /\ c[2][1] \in { "FWD", "NULLSLOT" }
      /\ \A i \in DOMAIN c[2] :
           c[2][i] \in { "ENTRY", "EXIT", "HANDLE_NULL", "UNWRITTEN",
                         "READ_HANDLE" } => i > 1

\* a constructor call has forwarded, then read the handle and traced
C3_Witness ==
  \E i \in DOMAIN calls :
    /\ calls[i].kind \in CtorKinds
    /\ calls[i].ev[1] = "FWD"
    /\ "ENTRY" \in Range(calls[i].ev)
    /\ "EXIT" \in Range(calls[i].ev)
    /\ calls[i].outcome = "returned"

\* C4: in every method shim (load_xclbin, get_xclbin_uuid, update_qos) the
\* order is ENTRY record, call through the slot, EXIT record: no EXIT comes
\* before the real call has returned and no ENTRY after it.
C4_MethodEntryCallExit ==
  \A c \in CallEvents :
    c[1] \in MethodKinds =>
      \A i, j \in DOMAIN c[2] :
        /\ (c[2][i] \in { "ENTRY", "HANDLE_NULL", "UNWRITTEN" }
            /\ c[2][j] \in { "FWD", "NULLSLOT" } /\ i > j)
           => \E k \in DOMAIN c[2] :
                k < j /\ c[2][k] \in { "ENTRY", "HANDLE_NULL", "UNWRITTEN" }
        /\ (c[2][i] = "EXIT" /\ c[2][j] = "ENTRY") => j < i
        /\ (c[2][i] = "EXIT" /\ c[2][j] \in { "FWD", "NULLSLOT" }) => j < i
        /\ (c[2][i] = "ENTRY" /\ c[2][j] \in { "FWD", "NULLSLOT" }) => i < j

\* a method call has traced its entry, forwarded and traced its exit
C4_Witness ==
  \E i \in DOMAIN calls :
    /\ calls[i].kind \in MethodKinds
    /\ calls[i].ev = << "ENTRY", "FWD", "EXIT" >>

\* C5 (as stated): every intercepted call whose slot is resolved is
\* forwarded to the real implementation exactly once, whatever the state of
\* the tracer; a device destructor call made while the use count is 2 or
\* more is forwarded too.
C5_ResolvedForwardedOnce ==
  \A i \in DOMAIN calls :
    dtbl[SlotOf(calls[i].kind)] # NULL => Forwards(i) = 1

\* the slot a signature of both maps is associated with
SlotOfSig(k) == dtbl[fname2fptr_map(k)]

\* the signatures that are keys of fname2fptr_map and of func_mangled
ResolvableSigs == fname2fptr_keys \cap DOMAIN func_mangled

\* a shim that forwarded and returned hands back what the real method returned
ReturnsRealValue ==
  \A i \in DOMAIN calls :
    (/\ calls[i].outcome = "returned"
     /\ "FWD" \in Range(calls[i].ev)
     /\ calls[i].kind \in MethodKinds \ { "xrt::hw_context::update_qos(const cfg_param_type&)" })
    => calls[i].r = calls[i].real

\* C6 (as stated): after load_func_addr has returned 1, every signature that
\* is a key of both fname2fptr_map and func_mangled has a non-null slot, and
\* a shim called on it returns exactly the value the real function returned.
C6_ResolvedSlotsNonNull ==
  rpc = "done" =>
    /\ \A k \in ResolvableSigs : SlotOfSig(k) # NULL
    /\ ReturnsRealValue

\* C6 (amended): after load_func_addr has returned 1, every signature that
\* is a key of both maps has in its slot what dlsym gave for its mangled
\* name: the symbol's address when the real library exports it, null when it
\* does not; a shim that forwarded through a non-null slot and returns,
\* returns exactly the value the real function returned.
C6_SlotsHoldDlsymResult ==
  rpc = "done" =>
    /\ \A k \in ResolvableSigs :
         /\ \E e \in dlsyms : e.name = func_mangled[k]
         /\ \A e \in dlsyms :
              e.name = func_mangled[k] =>
                SlotOfSig(k) = IF e.found THEN AddrOf(e.name) ELSE NULL
    /\ ReturnsRealValue

\* after a resolution that left one slot null and one resolved, load_xclbin
\* was forwarded and handed a value back
C6_Witness ==
  /\ rpc = "done"
  /\ ResolvableSigs = fname2fptr_keys
  /\ dtbl["dtbl.device.ctor"] = NULL
  /\ \E i \in DOMAIN calls :
       /\ calls[i].kind = "xrt::device::load_xclbin(const std::string&)"
       /\ calls[i].outcome = "returned"
       /\ "FWD" \in Range(calls[i].ev)
       /\ calls[i].r = 2

\* a slot is assigned only while load_func_addr runs its loop
SlotWriteStep == (dtbl' # dtbl \/ writes' # writes) => rpc = "addrs"

\* once the router construction has ended the table stays as it is
SlotsFrozenStep ==
  rpc \in { "done", "failed" } =>
    (dtbl' = dtbl /\ writes' = writes /\ rpc' = rpc)

\* C7: each slot is written at most once, only inside load_func_addr of the
\* one router construction; all writes are done before any shim reads a
\* slot; once the construction has finished no slot changes.
C7_SlotsWrittenOnceBeforeUse ==
  /\ [](\A s \in Slots :
          /\ writes[s] <= 1
          /\ (writes[s] > 0 => rpc \in { "addrs", "done" }))
  /\ []((InCall \/ calls # << >> \/ realCalls # << >>) =>
          (rpc = "done" /\ pending = {}))
  /\ [][SlotWriteStep]_vars
  /\ [][SlotsFrozenStep]_vars

\* both slots were written, then a shim forwarded through one
C7_Witness ==
  /\ rpc = "done"
  /\ writes["dtbl.device.ctor"] = 1
  /\ writes["dtbl.device.load_xclbin_fnm"] = 1
  /\ realCalls # << >>

\* the symbol read last among those of the table that demangle to sig
LastNameFor(sig) ==
  LET I == { i \in DOMAIN symtab :
               symtab[i].kind = "func" /\ demangle(symtab[i].name) = sig }
      m == CHOOSE i \in I : \A j \in I : j <= i
  IN symtab[m].name

\* C8: each known signature has one resolved address or a null slot: when
\* several symbols demangle to one signature, func_mangled holds the one name
\* read last from the symbol table, and the slot is assigned from that symbol
\* only.
C8_OneNamePerSignature ==
  /\ \A sig \in DOMAIN func_mangled : func_mangled[sig] = LastNameFor(sig)
  /\ \A i \in DOMAIN symtab :
       symtab[i].kind = "func" => demangle(symtab[i].name) \in DOMAIN func_mangled
  /\ \A sig \in fname2fptr_keys :
       /\ writes[fname2fptr_map(sig)] <= 1
       /\ SlotOfSig(sig) # NULL =>
            /\ sig \in DOMAIN func_mangled
            /\ SlotOfSig(sig) = AddrOf(func_mangled[sig])
       /\ \A e \in dlsyms :
            (sig \in DOMAIN func_mangled /\ demangle(e.name) = sig)
              => e.name = func_mangled[sig]

\* both constructor variants were read, C1 then C2, and the slot holds C2's
C8_Witness ==
  /\ rpc = "done"
  /\ Len(symtab) = 2
  /\ symtab[1].name = CtorC1
  /\ symtab[2].name = CtorC2
  /\ dtbl["dtbl.device.ctor"] = AddrOf(CtorC2)

\* C9: on a fatal setup failure (LD_PRELOAD unset, file not opened, bad ELF
\* magic, section headers or a symbol entry unreadable, no dynamic symbol
\* section, dlopen failure) the router constructor throws and no slot has
\* been written.
C9_FailedSetupWritesNothing ==
  rpc = "failed" =>
    /\ \A s \in Slots : dtbl[s] = NULL /\ writes[s] = 0
    /\ fptr2fname_map = EmptyMap
    /\ cout # << >>
    /\ cout[Len(cout)] \in
         { "Failed to load symbols exiting application ",
           "Failed to load function address exiting application " }
    /\ ~InCall /\ calls = << >>

\* the symbols were read, a known signature among them, and dlopen failed
C9_Witness ==
  /\ rpc = "failed"
  /\ ResolvableSigs # {}
  /\ cout = << "Failed to load function address exiting application " >>

\* the entries of the table read so far whose names do not demangle
Undemangled ==
  { i \in DOMAIN symtab :
      symtab[i].kind = "func" /\ CxaDemangle(symtab[i].name) = << >> }

UndemangledStep ==
  (/\ rpc = "symbols"
   /\ symtab' # symtab
   /\ Len(symtab') \in Undemangled')
  => /\ cerr' = cerr
     /\ cout' = cout
     /\ rpc' = IF Len(symtab') = nsyms THEN "dlopen" ELSE "symbols"

C11_NoTracingFailureSurfaces ==
  /\ rpc # "failed"
  /\ proc = "running"
  /\ \A i \in DOMAIN calls :
       calls[i].outcome = "threw" => calls[i].cause = "real"

\* C12: an exception raised by the real implementation during a forwarded
\* call reaches the caller of the shim: no shim catches or suppresses it,
\* the xclbin(const std::string&) constructor shim included.
C12_RealErrorsPropagate ==
  /\ InCall => ~cur.rthrew
  /\ \A i \in DOMAIN calls :
       calls[i].rthrew =>
         (calls[i].outcome = "threw" /\ calls[i].cause = "real")

\* C13: a call to a shim whose slot is unresolved writes exactly one line to
\* standard error, naming the slot, and no other error output; constructor
\* shims, whose handle is still null after the skipped forward, included.
\* (stated for constructors and for methods on an object that has a handle,
\* the calls whose only fault is the unresolved slot)
C13_OneErrorLineForNullSlot ==
  \A i \in DOMAIN calls :
    (/\ calls[i].nullslot
     /\ calls[i].kind \in CtorKinds \/ calls[i].key # NULL)
    => calls[i].errs = << SlotOf(calls[i].kind) >>

\* a trace point that finds the handle null reports it and touches neither
\* the logger nor the trace; the shim goes on with its next statement
NullHandleStep ==
  (/\ At({ "FUNC_ENTRY", "FUNC_EXIT", "FUNC_EXIT_RET" })
   /\ ~cur.released
   /\ handle[ClassOf(cur.kind)] = NULL)
  => /\ cerr' = Append(cerr, "Handle")
     /\ trace' = trace
     /\ lg' = lg
     /\ cout' = cout
     /\ cur'.kind = cur.kind
     /\ cur'.pc = cur.pc + 1
     /\ proc' = "running"
     /\ calls' = calls

\* C14: when the shim's handle is null at an ENTRY or EXIT trace point the
\* shim writes 'Handle is NULL' to standard error and no trace record for
\* that point; the null handle is not dereferenced and the caller goes on.
C14_NullHandleReportedNotTraced ==
  /\ [][NullHandleStep]_vars
  /\ [](\A k \in DOMAIN trace :
          trace[k].phase \in { "ENTRY", "EXIT" } => trace[k].key # NULL)

\* a method called on an object without a handle has reported it at both
\* trace points, forwarded, and returned
C14_Witness ==
  \E i \in DOMAIN calls :
    /\ calls[i].kind \in MethodKinds
    /\ calls[i].ev = << "HANDLE_NULL", "FWD", "HANDLE_NULL" >>
    /\ calls[i].errs = << "Handle", "Handle" >>
    /\ calls[i].outcome = "returned"
    /\ trace = << >>

\* C15: if the session directory cannot be created or a trace file cannot be
\* opened, the failure is only reported: every shim call is still forwarded
\* through its resolved slot and returns the real result.
C15_LogFailureOnlyReported ==
  lg \in { "nofile", "nodir" } =>
    \A i \in DOMAIN calls :
      dtbl[SlotOf(calls[i].kind)] # NULL =>
        /\ Forwards(i) = 1
        /\ calls[i].outcome = "returned" \/ calls[i].cause = "real"

(* ------------------------- logger-layer properties -------------------- *)
\* s is a prefix of q
IsPrefix(s, q) == Len(s) <= Len(q) /\ SubSeq(q, 1, Len(s)) = s

\* trace.txt reads HEADER, START, call records, and END once the destructor
\* has written it
WellFormedTrace ==
  /\ Len(trace) >= 2
  /\ trace[1].phase = "HEADER"
  /\ trace[2].phase = "START"
  /\ \A k \in 3..Len(trace) :
       \/ trace[k].phase \in { "ENTRY", "EXIT", "TORN" }
       \/ trace[k].phase = "END" /\ k = Len(trace)
  /\ (trace[Len(trace)].phase = "END") <=> (proc \in { "exiting", "exited" })

\* at most one thread runs logger::logger(), and none once an instance exists
ConstructedOnce ==
  \A t \in Threads :
    th[t].pc = "ctor" =>
      /\ linit = "constructing"
      /\ lg \notin { "open", "nofile", "closed" }
      /\ \A u \in Threads \ {t} : th[u].pc # "ctor"

\* C16: in the trace text file of a process whose logger opened it, HEADER is
\* the first record and START the second, each written once, every ENTRY/EXIT
\* record follows START, and END is written once, last, by the destructor,
\* after which the files are closed; the logger is constructed by one thread
\* only, also when several threads make their first traced call together.
C16_HeaderStartRecordsEnd ==
  /\ ConstructedOnce
  /\ lg \in { "open", "closed" } => WellFormedTrace
  /\ lg = "closed" <=> (proc = "exited" /\ linit = "done" /\ lg # "nofile")
  /\ (lg \in { "open", "nofile", "closed" }) <=> (linit = "done")

\* both threads have logged a line, the process has exited and the file reads
\* HEADER, START, two lines, END, although an older trace.txt existed
C16_Witness ==
  /\ proc = "exited"
  /\ lg = "closed"
  /\ pre.txt # << >>
  /\ Len(trace) = 5
  /\ { trace[3].tid, trace[4].tid } = Threads
  /\ trace[5].phase = "END"

\* C17: the content trace.txt and memdump.bin had before the logger opened
\* them is still there, in front of the new records.
C17_ExistingContentPreserved ==
  lg = "open" => IsPrefix(pre.txt, trace) /\ IsPrefix(pre.bin, blob)

RECURSIVE HexValue(_)
\* the number a string of hexadecimal digits denotes
HexValue(ds) ==
  IF ds = << >> THEN 0
  ELSE 16 * HexValue(SubSeq(ds, 1, Len(ds) - 1))
       + (CHOOSE d \in 0..15 : HexDigits[d + 1] = ds[Len(ds)])

\* the offset a reference mem@0x<offset>[filename:memdump.bin] carries
RefOffset(text) == HexValue(SubSeq(text, 2, Len(text) - 3))

\* the number four bytes of memdump.bin denote as a length field
LengthField(b) == b[1] + 256 * b[2] + 65536 * b[3] + 16777216 * b[4]

\* memdump.bin holds at offset off the tag, the byte count and the bytes of p
EntryAt(off, p) ==
  /\ Len(blob) >= off + 8 + Len(p)
  /\ SubSeq(blob, off + 1, off + 4) = << 109, 101, 109, 0 >>
  /\ LengthField(SubSeq(blob, off + 5, off + 8)) = Len(p)
  /\ SubSeq(blob, off + 9, off + 8 + Len(p)) = p

RECURSIVE SizeBefore(_)
\* the sum of 8 + length over the first n payloads written
SizeBefore(n) ==
  IF n = 0 THEN 0 ELSE SizeBefore(n - 1) + 8 + Len(refs[n].mb.ptr)

\* thread t is inside "fd << a1" of mb_stringify
MidWrite(t) == th[t].pc \in Range(BlobStages)

\* thread t is the only thread that is in, or has been through, mb_stringify
OnlyWriter(t) ==
  /\ \A i \in DOMAIN refs : refs[i].tid = t
  /\ \A u \in Threads \ {t} : th[u].pc # "tellp" /\ ~MidWrite(u)

\* C18: with memdump.bin open and one thread writing, the payloads lie in the
\* file in the order written, each as the tag "mem\0", a four-byte length
\* equal to its byte count and its bytes; the reference returned for each one
\* carries the size the file had before it, the sum of 8 + length of the
\* earlier ones.
C18_BlobEntriesAndOffsets ==
  \A t \in Threads :
    (lg = "open" /\ OnlyWriter(t) /\ ~MidWrite(t)) =>
      /\ Len(blob) = SizeBefore(Len(refs))
      /\ \A i \in DOMAIN refs :
           /\ RefOffset(refs[i].text) = SizeBefore(i - 1)
           /\ EntryAt(SizeBefore(i - 1), refs[i].mb.ptr)
           /\ refs[i].text[1] = "mem@0x"

\* one thread has written a two-byte payload and then another payload, whose
\* reference reads mem@0xa, over a memdump.bin that existed before
C18_Witness ==
  /\ lg = "open"
  /\ pre.bin # << >>
  /\ Len(refs) = 2
  /\ refs[1].tid = refs[2].tid
  /\ refs[1].mb.ptr = << 1, 2 >>
  /\ refs[2].text = << "mem@0x", "a", "[filename:", "memdump.bin", "]" >>
  /\ \A t \in Threads : ~MidWrite(t)

\* C19: whichever threads wrote the payloads, no two references carry the
\* same offset, and at each referenced offset lie the tag, length and bytes
\* of the buffer the reference was returned for.
C19_ReferencesPointToOwnEntry ==
  (lg = "open" /\ \A t \in Threads : ~MidWrite(t)) =>
    \A i \in DOMAIN refs :
      /\ EntryAt(RefOffset(refs[i].text), refs[i].mb.ptr)
      /\ \A j \in DOMAIN refs : i # j => refs[i].text # refs[j].text

\* C20: no call record of trace.txt holds the bytes of a buffer: each argument
\* string, return string and named-value string that a membuf produced is a
\* reference beginning with mem@0x.
C20_BuffersNeverInlined ==
  \A k \in DOMAIN trace :
    trace[k].phase \in { "ENTRY", "EXIT" } =>
      \A f \in { "args", "ret", "named" } :
        trace[k].body[f] # << >> => trace[k].body[f][1] = "mem@0x"

\* the call records of trace.txt, torn ones included
CallLines == SelectSeq(trace, LAMBDA rec : rec.phase \in { "ENTRY", "EXIT", "TORN" })

\* C21: when the threads have returned from logger::log, trace.txt holds one
\* complete line for every record handed to it: as many ENTRY/EXIT lines as
\* trace macros ran, none of them partial or merged.
C21_OneWholeLinePerRecord ==
  (lg = "open" /\ \A t \in Threads : th[t].pc = "idle") =>
    /\ Len(CallLines) = nev
    /\ \A k \in DOMAIN CallLines : CallLines[k].phase # "TORN"

(* --------------------------- timediff properties ---------------------- *)
\* now is not earlier than then
NotEarlier(now, thn) ==
  \/ now.tv_sec > thn.tv_sec
  \/ now.tv_sec = thn.tv_sec /\ now.tv_nsec >= thn.tv_nsec

\* the value of a uint64_t below 2^31
Small64(l) == l[1] + 65536 * l[2]

\* C22: for nanosecond parts in [0, 10^9) and now >= then, timediff yields s
\* and n with 0 <= n < 10^9 and s * 10^9 + n = now - then in nanoseconds; the
\* printed fraction always has nine digits; for now < then the seconds are
\* the 64-bit wrap-around 2^64 - k of the negative difference -k.
C22_TimediffBorrowsAndPads ==
  res # << >> =>
    LET now == arg.now
        thn == arg.thn
        ds == now.tv_sec - thn.tv_sec
        dn == now.tv_nsec - thn.tv_nsec
        s == Small64(res.sec)
        n == Small64(res.nsec)
    IN /\ Len(res.frac) = 9
       /\ res.nsec[3] = 0 /\ res.nsec[4] = 0 /\ 0 <= n /\ n < 1000000000
       /\ NotEarlier(now, thn) =>
            /\ res.sec[3] = 0 /\ res.sec[4] = 0
            /\ s \in { ds, ds - 1 }
            /\ (s - ds) * 1000000000 + n - dn = 0
       /\ ~NotEarlier(now, thn) =>
            /\ res.sec[2] = 65535 /\ res.sec[3] = 65535 /\ res.sec[4] = 65535
            /\ res.sec[1] - 65536 \in { ds, ds - 1 }
            /\ (res.sec[1] - 65536 - ds) * 1000000000 + n - dn = 0
            /\ Len(res.int) = 20

\* 1.000000001 - 0.999999999 gives 0.000000002 by borrowing a second
C22_Witness ==
  /\ res # << >>
  /\ arg.now = [tv_sec |-> 1, tv_nsec |-> 1]
  /\ arg.thn = [tv_sec |-> 0, tv_nsec |-> 999999999]
  /\ res.int = << 0 >>
  /\ res.frac = << 0, 0, 0, 0, 0, 0, 0, 0, 2 >>

(* --------------------------- destructor properties -------------------- *)
\* the ENTRY records of the device destructor that carry key k
DtorEntries(k) ==
  SelectSeq(trace, LAMBDA rec : /\ rec.phase = "ENTRY"
                                /\ rec.sig = "xrt::device::~device()"
                                /\ rec.key = k)

\* the destructor calls that have ended
DtorCalls == { i \in DOMAIN calls : calls[i].kind \in DtorKinds }

\* C23: a destructor call that observes use_count >= 2 writes no record (and
\* does nothing else); a destructor ENTRY record comes only from a call that
\* observed use_count < 2, so each handle has at most one, and exactly one
\* once its last wrapper has been destroyed with trace.txt open.
C23_OneDtorEntryPerHandle ==
  /\ \A i \in DtorCalls :
       /\ calls[i].count >= 2 => calls[i].ev = << >>
       /\ "ENTRY" \in Range(calls[i].ev) => calls[i].count < 2
  /\ \A k \in 1..keys : Len(DtorEntries(k)) <= 1
  /\ \A i \in DtorCalls :
       (calls[i].count = 1 /\ lg = "open") => Len(DtorEntries(calls[i].key)) = 1
  /\ (InCall /\ cur.kind \in DtorKinds /\ "ENTRY" \in Range(cur.ev)) => cur.count < 2

\* two wrappers of device 1 destroyed one after the other: the first
\* destructor is silent, the second writes the ENTRY record
C23_Witness ==
  /\ Len(calls) = 2
  /\ calls[1].kind \in DtorKinds /\ calls[1].count = 2 /\ calls[1].ev = << >>
  /\ calls[2].kind \in DtorKinds /\ calls[2].count = 1
  /\ calls[2].ev[1] = "ENTRY"
  /\ Len(DtorEntries(1)) = 1

\* the EXIT records of the device destructor that carry key k
DtorExits(k) ==
  SelectSeq(trace, LAMBDA rec : /\ rec.phase = "EXIT"
                                /\ rec.sig = "xrt::device::~device()"
                                /\ rec.key = k)

\* C24: with trace.txt open and the destructor slot resolved, a destructor
\* call that passes the gate on a live handle leaves a matched pair on either
\* platform: ENTRY, EXIT, forward on Windows; ENTRY, forward, EXIT on Linux,
\* the EXIT record carrying the key of the ENTRY record.
C24_DtorPairOnBothPlatforms ==
  \A i \in DtorCalls :
    (/\ calls[i].count < 2
     /\ calls[i].key # NULL
     /\ lg = "open"
     /\ dtbl["dtbl.device.dtor"] # NULL)
    => /\ calls[i].ev = IF win32 THEN << "ENTRY", "EXIT", "FWD" >>
                        ELSE << "ENTRY", "FWD", "EXIT" >>
       /\ Len(DtorEntries(calls[i].key)) = 1
       /\ Len(DtorExits(calls[i].key)) = 1

(* --------------------------- environment properties ------------------- *)
\* every read made so far was made by the holder of env_mutex, the thread
\* about to read holds it, and no second thread is at a read
ReadsUnderLock ==
  /\ \A i \in DOMAIN res : res[i].held
  /\ \A t \in Threads : th[t].pc = "getenv" => env_mutex = t
  /\ \A t, u \in Threads : (th[t].pc = "getenv" /\ th[u].pc = "getenv") => t = u
  /\ \A t \in Threads : env_mutex = t => th[t].pc \in { "getenv", "return" }

\* a thread that waits for env_mutex gets it, unless the process dies
LockWaitEnds ==
  \A t \in Threads : (th[t].pc = "lock") ~> (th[t].pc # "lock" \/ proc = "crashed")

\* C25: every environment read of the library (LD_PRELOAD in
\* find_library_path; INST_DEBUG, TRACE_APP_NAME, START_TIME in the logger
\* constructor) is made by the thread that holds env_mutex, so no two threads
\* read at the same time; the holder never waits for the mutex itself, and a
\* waiting thread gets the mutex.
C25_EnvReadsUnderEnvMutex == []ReadsUnderLock /\ LockWaitEnds

\* thread 1 reads START_TIME in the logger constructor while thread 2 waits
\* for the mutex in find_library_path
C25_Witness ==
  /\ th[1].pc = "getenv" /\ th[1].fn = "logger::logger" /\ th[1].pos = 3
  /\ th[2].pc = "lock" /\ th[2].fn = "find_library_path"
  /\ env_mutex = 1
  /\ Len(res) >= 2

(* --------------------------- resolution properties -------------------- *)
\* C26: once load_func_addr has completed, no key of fptr2fname_map is the
\* null address: a signature whose dlsym lookup returned null was reported on
\* std::cout and got no entry.
C26_ReverseMapHasNoNullKey ==
  rpc = "done" =>
    /\ NULL \notin DOMAIN fptr2fname_map
    /\ (\E s \in Slots : writes[s] > 0 /\ dtbl[s] = NULL)
         => "Null Func address received " \in Range(cout)

\* the slots that are values of the fixed association
ResolvableSlots == { fname2fptr_map(k) : k \in fname2fptr_keys }

\* C27: whichever shim the client calls, the slot it routes through is a
\* value of fname2fptr_map, so that resolution can write an address into it.
C27_EveryShimSlotResolvable ==
  /\ InCall => SlotOf(cur.kind) \in ResolvableSlots
  /\ \A i \in DOMAIN calls : SlotOf(calls[i].kind) \in ResolvableSlots

(* --------------------------- replacement properties ------------------- *)
\* str begins with pat
StartsWith(str, pat) == Len(pat) <= Len(str) /\ SubSeq(str, 1, Len(pat)) = pat

RECURSIVE ScanReplace(_, _, _)
\* str read from left to right, every occurrence of pat met on the way
\* replaced by rep, the scan going on behind the occurrence
ScanReplace(str, pat, rep) ==
  IF str = << >> THEN << >>
  ELSE IF StartsWith(str, pat)
  THEN rep \o ScanReplace(SubSeq(str, Len(pat) + 1, Len(str)), pat, rep)
  ELSE << Head(str) >> \o ScanReplace(Tail(str), pat, rep)

RECURSIVE ScanCount(_, _)
\* the number of non-overlapping occurrences of pat in str, left to right
ScanCount(str, pat) ==
  IF str = << >> THEN 0
  ELSE IF StartsWith(str, pat)
  THEN 1 + ScanCount(SubSeq(str, Len(pat) + 1, Len(str)), pat)
  ELSE ScanCount(Tail(str), pat)

RECURSIVE ScanAll(_, _)
\* the pairs applied one after the other, in list order
ScanAll(str, reps) ==
  IF reps = << >> THEN str
  ELSE ScanAll(ScanReplace(str, Head(reps)[1], Head(reps)[2]), Tail(reps))

\* what the loop has done so far agrees with the left-to-right scan
ReplaceAgrees ==
  /\ res.k <= Len(arg.replacements) =>
       res.n <= ScanCount(res.s0, arg.replacements[res.k][1])
  /\ \A j \in DOMAIN res.hits :
       res.hits[j] = ScanCount(ScanAll(arg.str, SubSeq(arg.replacements, 1, j - 1)),
                               arg.replacements[j][1])
  /\ res.done =>
       /\ res.str = ScanAll(arg.str, arg.replacements)
       /\ res.str = find_and_replace_all(arg.str, arg.replacements)

\* C28: for non-empty patterns find_and_replace_all returns; the pairs are
\* applied in list order, each replacing every non-overlapping occurrence of
\* its pattern from left to right, once per occurrence present when the pair
\* began (inserted text is not scanned again by the same pair).
C28_ReplaceAllTerminatesScansOnce == []ReplaceAgrees /\ <>(res.done)

\* "a,b" with "," replaced by ", " and then "a" removed: one replacement
\* each, result ", b"
C28_Witness ==
  /\ res.done
  /\ arg.str = << "a", ",", "b" >>
  /\ arg.replacements = << << << "," >>, << ",", " " >> >>, << << "a" >>, << >> >> >>
  /\ res.hits = << 1, 1 >>
  /\ res.str = << ",", " ", "b" >>

(* --------------------------- hand-off properties ---------------------- *)
\* C29: for every start time with 0 <= tv_nsec < 10^9 the logger reads back
\* from START_TIME the seconds and nanoseconds the launcher wrote, and the
\* directory it names is the one the launcher announced.
C29_StartTimeRoundTrip ==
  (res.pc = "logger" /\ arg.tv_nsec >= 0 /\ arg.tv_nsec < giga) =>
    /\ res.start_time = [tv_sec |-> arg.tv_sec, tv_nsec |-> arg.tv_nsec]
    /\ arg.lib => res.announced = res.time_fmt_str

\* 2000-02-29 12:34:56 UTC and half a second, five and a half hours east
C29_Witness ==
  /\ res.pc = "logger"
  /\ arg.lib
  /\ arg.tv_sec = 951827696 /\ arg.tv_nsec = 500000000 /\ arg.tz = 19800
  /\ res.START_TIME = << "9", "5", "1", "8", "2", "7", "6", "9", "6", ".",
                         "5", "0", "0", "0", "0", "0", "0", "0", "0" >>
  /\ res.start_time.tv_nsec = 500000000
  /\ res.time_fmt_str = << "2", "0", "0", "0", "-", "0", "2", "-", "2", "9", "_",
                           "1", "8", "-", "0", "4", "-", "5", "6" >>
  /\ res.announced = res.time_fmt_str

(* --------------------------- launcher properties ---------------------- *)
\* the array holds the tokens in order, followed by a null pointer
FilledAndTerminated(arr, vec) ==
  /\ Len(vec) < Len(arr)
  /\ \A i \in 1..Len(vec) : arr[i] = vec[i]
  /\ arr[Len(vec) + 1] = NULL

\* C30: execve is called only with an argument array that convert_to_c_array
\* filled and null-terminated; when the conversion returned -1 (max_cmd_args
\* or more tokens) execve is not called.
C30_ExecveOnlyAfterConversion ==
  res.pc = "called" => (res.rc = 0 /\ FilledAndTerminated(res.argv, arg))

====
